---- MODULE Spec2Model ----
(***************************************************************************)
(* Flowkeeper event-sourcing core: the event source (execute,              *)
(* execute_prepared_strategy, auto_seal), the strategies it runs against   *)
(* the tenant tree, and the auto-seal reconciler.                          *)
(*                                                                         *)
(* Every handler is one atomic action.  A handler is computed by operators *)
(* that return the tree it leaves, the events it emitted and the exception *)
(* it raised ("" for none); a raise keeps the mutations made before it, as *)
(* in Python.                                                              *)
(***************************************************************************)
EXTENDS Integers, Sequences, FiniteSets, TLC

\* ---------------------------------------------------------------- bounds
MaxSteps == 2        \* handler calls and clock advances of a run, after its scenario
MaxReplaySteps == 1  \* the same, in the runs that go on to replay the log
MaxTime == 5         \* cap on the wall clock
MaxPomodoros == 2    \* cap on the Pomodoros of one work item
MaxChanges == 3      \* AfterSettingsChanged events of a run

\* -------------------------------------------------------------- settings
ADMIN_USER == "admin"
Username == "user@local.host"
Fullname == "Local User"
\* the settings the identity is read from: Source.type and WebsocketEventSource.username.
\* The defaults, a local source whose unused server account is filled in, and a source
\* that is not local
DefaultSettings == [type |-> "local", username |-> "user@local.host"]
LocalSettings == [type |-> "local", username |-> "alice@example.org"]
RemoteSettings == [type |-> "websocket", username |-> "alice@example.org"]
\* a get_username that reads the server account whatever the source type
get_username_configured(s) == s.username
\* AbstractSettings.get_username()
get_username(s) ==
    IF s.type = "local" THEN Username ELSE s.username
\* Pomodoro.auto_seal_after, Pomodoro.default_work_duration and
\* Pomodoro.default_rest_duration, in seconds: the smallest values the settings allow
AutoSealAfter == 1
DefaultWorkDuration == 1
DefaultRestDuration == 1

\* --------------------------------------------------------- input universe
BacklogUids == {"b1", "b2"}
WorkitemUids == {"w1", "w2"}
TargetStates == {"finished", "canceled", "invalid"}

VARIABLES
    tree,       \* the tenant: [users: sequence of users in insertion order, alloc: objects created so far]
    last_seq,   \* AbstractEventSource._last_seq
    log,        \* the durable log: the strategies _append has stored, in order
    now,        \* the wall clock
    phase,      \* "new" (constructed), "live" (after start()), "replay" (replicas are being built)
    replicas,   \* two fresh sources that replay the log: replica -> [started, own, t, last_seq, err, at],
                \* the log read, the entries replayed and the events emitted and delivered
                \* (read, handed, ev, delivered),
                \* and what an execute() after the replay made of them (cur, ex)
    out,        \* what the last handler did: its strategy, events, exception and call counts,
                \* the source as it was before the call, the time of the call, and the
                \* call before it
    steps,      \* handler calls and clock advances so far
    settings,   \* the settings the source was constructed with
    subscribed, \* IntegrationExecutor._subscribed: event -> command, in insertion order
    connections,\* the subscriptions the emitters hold for the executor, in subscription order
    callbacks,  \* the value of the setting Integration.callbacks
    fired,      \* the last event emitted and what the executor's callbacks ran for it
    changes     \* AfterSettingsChanged events so far

integration == <<subscribed, connections, callbacks, fired, changes>>
vars == <<tree, last_seq, log, now, phase, replicas, out, steps, settings, integration>>

\* ------------------------------------------------------------ sequences
\* a del d[key] that leaves the dict as it was
KeepAll(s, i) == s

\* del d[key]
RemoveAt(s, i) == SubSeq(s, 1, i - 1) \o SubSeq(s, i + 1, Len(s))

\* dict lookup by key: the position of the first element with this uid, 0 when absent
IndexOf(s, uid) ==
    IF \E i \in 1..Len(s) : s[i].uid = uid
    THEN CHOOSE i \in 1..Len(s) : s[i].uid = uid /\ \A j \in 1..(i - 1) : s[j].uid # uid
    ELSE 0

\* ------------------------------------------------------------- entities
NewUser(identity, name, when) ==
    [uid |-> identity, name |-> name, last_modified |-> when, backlogs |-> <<>>]

NewBacklog(uid, name, when) ==
    [uid |-> uid, name |-> name, last_modified |-> when, items |-> <<>>]

NewWorkitem(uid, name, when, oid) ==
    [uid |-> uid, name |-> name, state |-> "planned", last_modified |-> when,
     oid |-> oid, pomodoros |-> <<>>]

NewPomodoro(work_duration, rest_duration) ==
    [state |-> "new", work_duration |-> work_duration, rest_duration |-> rest_duration,
     since |-> 0]

EmptyTenant == [users |-> <<>>, alloc |-> 0]

\* Pomodoro
is_running(p) == p.state \in {"working", "resting"}
is_working(p) == p.state = "working"
is_resting(p) == p.state = "resting"
pomodoro_is_startable(p) == p.state = "new"
planned_end_of_work(p) == p.since + p.work_duration
planned_end_of_rest(p) ==
    IF p.state = "working" THEN p.since + p.work_duration + p.rest_duration
    ELSE p.since + p.rest_duration
remaining_time_in_current_state(p, clock) ==
    IF p.state = "working" THEN planned_end_of_work(p) - clock
    ELSE planned_end_of_rest(p) - clock
total_remaining_time(p, clock) == planned_end_of_rest(p) - clock

\* Workitem
is_sealed(w) == w.state \in {"finished", "canceled"}
is_planned(w) == w.state = "planned"
workitem_is_running(w) == w.state = "running"
has_running_pomodoro(w) == \E i \in 1..Len(w.pomodoros) : is_running(w.pomodoros[i])
\* an is_startable that does not look at the state of the work item
has_new_pomodoro(w) == \E i \in 1..Len(w.pomodoros) : pomodoro_is_startable(w.pomodoros[i])

is_startable(w) ==
    /\ ~is_sealed(w)
    /\ \E i \in 1..Len(w.pomodoros) : pomodoro_is_startable(w.pomodoros[i])
RunningIndex(w) ==
    IF has_running_pomodoro(w)
    THEN CHOOSE i \in 1..Len(w.pomodoros) :
            is_running(w.pomodoros[i]) /\ \A j \in 1..(i - 1) : ~is_running(w.pomodoros[j])
    ELSE 0
StartableIndex(w) ==
    IF \E i \in 1..Len(w.pomodoros) : pomodoro_is_startable(w.pomodoros[i])
    THEN CHOOSE i \in 1..Len(w.pomodoros) :
            /\ pomodoro_is_startable(w.pomodoros[i])
            /\ \A j \in 1..(i - 1) : ~pomodoro_is_startable(w.pomodoros[j])
    ELSE 0

\* ------------------------------------------------------------ traversal
\* AbstractEventSource.workitems(): every work item of every backlog of every user,
\* as <<user, backlog, workitem>> positions in iteration order
RECURSIVE SortPositions(_)
SortPositions(S) ==
    IF S = {} THEN <<>>
    ELSE LET m == CHOOSE x \in S : \A y \in S :
                    \/ x[1] < y[1]
                    \/ x[1] = y[1] /\ x[2] < y[2]
                    \/ x[1] = y[1] /\ x[2] = y[2] /\ x[3] <= y[3]
         IN <<m>> \o SortPositions(S \ {m})

WorkitemPositions(t) ==
    UNION { UNION { { <<ui, bi, wi>> : wi \in 1..Len(t.users[ui].backlogs[bi].items) } :
                    bi \in 1..Len(t.users[ui].backlogs) } :
            ui \in 1..Len(t.users) }

\* a traversal that stops after the first backlog of each user
workitems_of_first_backlog(t) ==
    SortPositions({ pos \in WorkitemPositions(t) : pos[2] = 1 })

workitems(t) == SortPositions(WorkitemPositions(t))

WorkitemAt(t, pos) == t.users[pos[1]].backlogs[pos[2]].items[pos[3]]

\* every Pomodoro of the tree that is working or resting, as <<user, backlog, workitem, pomodoro>>
RunningPomodoros(t) ==
    UNION { { <<pos[1], pos[2], pos[3], pi>> :
                pi \in { i \in 1..Len(WorkitemAt(t, pos).pomodoros) :
                            is_running(WorkitemAt(t, pos).pomodoros[i]) } } :
            pos \in WorkitemPositions(t) }

\* the objects (work items) reachable from the tenant
ReachableOids(t) == { WorkitemAt(t, pos).oid : pos \in WorkitemPositions(t) }

\* the first backlog of the user that holds the work item: <<backlog, workitem>>, <<0, 0>> when none
FindWorkitem(u, uid) ==
    IF \E bi \in 1..Len(u.backlogs) : IndexOf(u.backlogs[bi].items, uid) # 0
    THEN LET bi == CHOOSE b \in 1..Len(u.backlogs) :
                      /\ IndexOf(u.backlogs[b].items, uid) # 0
                      /\ \A c \in 1..(b - 1) : IndexOf(u.backlogs[c].items, uid) = 0
         IN <<bi, IndexOf(u.backlogs[bi].items, uid)>>
    ELSE <<0, 0>>

\* where a strategy's target is: the actor's user, the backlog and the work item
\* (0 for what does not resolve)
Nowhere == [ui |-> 0, bi |-> 0, wi |-> 0]

\* a lookup that takes the backlog from whichever user holds the uid first
LocateBacklogAnywhere(t, user, uid) ==
    IF IndexOf(t.users, user) = 0 THEN Nowhere
    ELSE IF \E ui \in 1..Len(t.users) : IndexOf(t.users[ui].backlogs, uid) # 0
    THEN [ui |-> CHOOSE ui \in 1..Len(t.users) :
                     /\ IndexOf(t.users[ui].backlogs, uid) # 0
                     /\ \A uj \in 1..(ui - 1) : IndexOf(t.users[uj].backlogs, uid) = 0,
          bi |-> IndexOf(t.users[CHOOSE ui \in 1..Len(t.users) :
                                     /\ IndexOf(t.users[ui].backlogs, uid) # 0
                                     /\ \A uj \in 1..(ui - 1) :
                                            IndexOf(t.users[uj].backlogs, uid) = 0].backlogs,
                         uid),
          wi |-> 0]
    ELSE [ui |-> IndexOf(t.users, user), bi |-> 0, wi |-> 0]

LocateBacklog(t, user, uid) ==
    IF IndexOf(t.users, user) = 0 THEN Nowhere
    ELSE [ui |-> IndexOf(t.users, user),
          bi |-> IndexOf(t.users[IndexOf(t.users, user)].backlogs, uid),
          wi |-> 0]

LocateWorkitem(t, user, uid) ==
    IF IndexOf(t.users, user) = 0 THEN Nowhere
    ELSE [ui |-> IndexOf(t.users, user),
          bi |-> FindWorkitem(t.users[IndexOf(t.users, user)], uid)[1],
          wi |-> FindWorkitem(t.users[IndexOf(t.users, user)], uid)[2]]

WorkitemOf(t, at) == t.users[at.ui].backlogs[at.bi].items[at.wi]

\* item_updated(when) on a backlog: stamps it and bubbles to its user
BacklogUpdated(t, at, when) ==
    [t EXCEPT !.users[at.ui].backlogs[at.bi].last_modified = when,
              !.users[at.ui].last_modified = when]

\* item_updated(when) on a work item: stamps it and bubbles to its backlog and user
WorkitemUpdated(t, at, when) ==
    [t EXCEPT !.users[at.ui].backlogs[at.bi].items[at.wi].last_modified = when,
              !.users[at.ui].backlogs[at.bi].last_modified = when,
              !.users[at.ui].last_modified = when]

\* ----------------------------------------------------------- strategies
\* A strategy: (sequence, timestamp, actor identity, class, parameters)
Params(cls, uid, buid, name, num, target) ==
    [cls |-> cls, uid |-> uid, buid |-> buid, name |-> name, num |-> num, target |-> target]

Strategy(seq, when, user, p) ==
    [seq |-> seq, when |-> when, user |-> user, cls |-> p.cls, uid |-> p.uid,
     buid |-> p.buid, name |-> p.name, num |-> p.num, target |-> p.target]

\* what Strategy.execute returns: the tree, the events emitted, (res, who) and the exception
Nobody == [name |-> "", oid |-> 0]
Done(t, ev) == [t |-> t, ev |-> ev, res |-> "none", who |-> Nobody, err |-> ""]
Raise(t, ev, msg) == [t |-> t, ev |-> ev, res |-> "none", who |-> Nobody, err |-> msg]
AutoSealSentinel(t, w) ==
    [t |-> t, ev |-> <<>>, res |-> "auto-seal", who |-> [name |-> w.name, oid |-> w.oid], err |-> ""]

\* an execute_another that calls the sub-strategy's execute with no bracket of its own
execute_unbracketed(r) == r

\* AbstractStrategy.execute_another: the sub-strategy runs against the same tree and
\* emitter, bracketed by its own BeforeMessageProcessed / AfterMessageProcessed
execute_another(r) ==
    IF r.err # ""
    THEN [r EXCEPT !.ev = <<"BeforeMessageProcessed">> \o r.ev]
    ELSE [r EXCEPT !.ev = <<"BeforeMessageProcessed">> \o r.ev \o <<"AfterMessageProcessed">>]

\* CreateUser(identity, name)
CreateUserStrategy(s, t) ==
    IF IndexOf(t.users, s.uid) # 0
    THEN Raise(t, <<>>, "User already exists")
    ELSE Done([t EXCEPT !.users = Append(@, NewUser(s.uid, s.name, s.when))],
              <<"BeforeUserCreate", "AfterUserCreate">>)

\* a CreateBacklog that does not look for the uid: user[uid] = backlog replaces the entry
CreateBacklogOverwriting(s, t, at) ==
    IF at.ui = 0 THEN Raise(t, <<>>, "KeyError")
    ELSE Done(BacklogUpdated(
                 IF at.bi # 0
                 THEN [t EXCEPT !.users[at.ui].backlogs[at.bi] = NewBacklog(s.uid, s.name, s.when)]
                 ELSE [t EXCEPT !.users[at.ui].backlogs = Append(@, NewBacklog(s.uid, s.name, s.when))],
                 [at EXCEPT !.bi = IF at.bi # 0 THEN at.bi ELSE Len(t.users[at.ui].backlogs) + 1],
                 s.when),
              <<"BeforeBacklogCreate", "AfterBacklogCreate">>)

\* CreateBacklog(uid, name)
CreateBacklogAt(s, t, at) ==
    IF at.ui = 0 THEN Raise(t, <<>>, "KeyError")
    ELSE IF at.bi # 0 THEN Raise(t, <<>>, "Backlog already exists")
    ELSE Done(BacklogUpdated(
                 [t EXCEPT !.users[at.ui].backlogs = Append(@, NewBacklog(s.uid, s.name, s.when))],
                 [at EXCEPT !.bi = Len(t.users[at.ui].backlogs) + 1], s.when),
              <<"BeforeBacklogCreate", "AfterBacklogCreate">>)

CreateBacklogStrategy(s, t) == CreateBacklogAt(s, t, LocateBacklog(t, s.user, s.uid))

\* RenameBacklog(uid, new name)
RenameBacklogAt(s, t, at) ==
    IF at.ui = 0 THEN Raise(t, <<>>, "KeyError")
    ELSE IF at.bi = 0 THEN Raise(t, <<>>, "Backlog not found")
    ELSE Done(BacklogUpdated([t EXCEPT !.users[at.ui].backlogs[at.bi].name = s.name], at, s.when),
              <<"BeforeBacklogRename", "AfterBacklogRename">>)

RenameBacklogStrategy(s, t) == RenameBacklogAt(s, t, LocateBacklog(t, s.user, s.uid))

\* CompletePomodoro(workitem uid, target state): seals the running Pomodoro of the work item
CompletePomodoroAt(s, t, at) ==
    IF at.ui = 0 THEN Raise(t, <<>>, "KeyError")
    ELSE IF at.bi = 0 THEN Raise(t, <<>>, "Workitem not found")
    ELSE IF s.target \notin {"finished", "canceled"} THEN Raise(t, <<>>, "Invalid target state")
    ELSE IF ~has_running_pomodoro(WorkitemOf(t, at)) THEN Raise(t, <<>>, "Workitem is not running")
    ELSE Done(WorkitemUpdated(
                 [t EXCEPT !.users[at.ui].backlogs[at.bi].items[at.wi]
                               .pomodoros[RunningIndex(WorkitemOf(t, at))].state = s.target],
                 at, s.when),
              <<"BeforePomodoroComplete", "AfterPomodoroComplete">>)

CompletePomodoroStrategy(s, t) == CompletePomodoroAt(s, t, LocateWorkitem(t, s.user, s.uid))

\* the void of a running Pomodoro that DeleteWorkitem and CompleteWorkitem cascade to
VoidRunningPomodoro(s, t, w) ==
    IF has_running_pomodoro(w)
    THEN execute_another(CompletePomodoroStrategy(
            [s EXCEPT !.cls = "CompletePomodoro", !.uid = w.uid, !.target = "canceled"], t))
    ELSE Done(t, <<>>)

\* CreateWorkitem(uid, backlog uid, name)
CreateWorkitemAt(s, t, at) ==
    IF at.ui = 0 THEN Raise(t, <<>>, "KeyError")
    ELSE IF at.bi = 0 THEN Raise(t, <<>>, "Backlog not found")
    ELSE IF IndexOf(t.users[at.ui].backlogs[at.bi].items, s.uid) # 0
    THEN Raise(t, <<>>, "Workitem already exists")
    ELSE Done(WorkitemUpdated(
                 [t EXCEPT !.users[at.ui].backlogs[at.bi].items =
                               Append(@, NewWorkitem(s.uid, s.name, s.when, t.alloc + 1)),
                           !.alloc = @ + 1],
                 [at EXCEPT !.wi = Len(t.users[at.ui].backlogs[at.bi].items) + 1], s.when),
              <<"BeforeWorkitemCreate", "AfterWorkitemCreate">>)

CreateWorkitemStrategy(s, t) == CreateWorkitemAt(s, t, LocateBacklog(t, s.user, s.buid))

\* DeleteWorkitem(uid), once its running Pomodoro is voided (v)
DeleteWorkitemVoided(s, at, v) ==
    IF v.err # "" THEN Raise(v.t, <<"BeforeWorkitemDelete">> \o v.ev, v.err)
    ELSE Done([WorkitemUpdated(v.t, at, s.when)
                   EXCEPT !.users[at.ui].backlogs[at.bi].items = RemoveAt(@, at.wi)],
              <<"BeforeWorkitemDelete">> \o v.ev \o <<"AfterWorkitemDelete">>)

\* a DeleteWorkitem that refuses a sealed work item as the other mutations do
DeleteWorkitemUnsealedOnly(s, t, at) ==
    IF at.ui = 0 THEN Raise(t, <<>>, "KeyError")
    ELSE IF at.bi = 0 THEN Raise(t, <<>>, "Workitem not found")
    ELSE IF is_sealed(WorkitemOf(t, at)) THEN Raise(t, <<>>, "Workitem is sealed")
    ELSE DeleteWorkitemVoided(s, at, VoidRunningPomodoro(s, t, WorkitemOf(t, at)))

DeleteWorkitemAt(s, t, at) ==
    IF at.ui = 0 THEN Raise(t, <<>>, "KeyError")
    ELSE IF at.bi = 0 THEN Raise(t, <<>>, "Workitem not found")
    ELSE DeleteWorkitemVoided(s, at, VoidRunningPomodoro(s, t, WorkitemOf(t, at)))

DeleteWorkitemStrategy(s, t) == DeleteWorkitemAt(s, t, LocateWorkitem(t, s.user, s.uid))

\* a RenameWorkitem that does not look at the state of the work item
RenameWorkitemSealedToo(s, t, at) ==
    IF at.ui = 0 THEN Raise(t, <<>>, "KeyError")
    ELSE IF at.bi = 0 THEN Raise(t, <<>>, "Workitem not found")
    ELSE Done(WorkitemUpdated(
                 [t EXCEPT !.users[at.ui].backlogs[at.bi].items[at.wi].name = s.name], at, s.when),
              <<"BeforeWorkitemRename", "AfterWorkitemRename">>)

\* RenameWorkitem(uid, new name)
RenameWorkitemAt(s, t, at) ==
    IF at.ui = 0 THEN Raise(t, <<>>, "KeyError")
    ELSE IF at.bi = 0 THEN Raise(t, <<>>, "Workitem not found")
    ELSE IF is_sealed(WorkitemOf(t, at)) THEN Raise(t, <<>>, "Workitem is sealed")
    ELSE Done(WorkitemUpdated(
                 [t EXCEPT !.users[at.ui].backlogs[at.bi].items[at.wi].name = s.name], at, s.when),
              <<"BeforeWorkitemRename", "AfterWorkitemRename">>)

RenameWorkitemStrategy(s, t) == RenameWorkitemAt(s, t, LocateWorkitem(t, s.user, s.uid))

\* CompleteWorkitem(uid, target state), once its running Pomodoro is voided (v)
CompleteWorkitemVoided(s, at, v) ==
    IF v.err # "" THEN Raise(v.t, <<"BeforeWorkitemComplete">> \o v.ev, v.err)
    ELSE Done(WorkitemUpdated(
                 [v.t EXCEPT !.users[at.ui].backlogs[at.bi].items[at.wi].state = s.target],
                 at, s.when),
              <<"BeforeWorkitemComplete">> \o v.ev \o <<"AfterWorkitemComplete">>)

\* a CompleteWorkitem that seals the work item and leaves its running Pomodoro alone
CompleteWorkitemNoVoid(s, t, at) ==
    IF at.ui = 0 THEN Raise(t, <<>>, "KeyError")
    ELSE IF at.bi = 0 THEN Raise(t, <<>>, "Workitem not found")
    ELSE IF s.target \notin {"finished", "canceled"} THEN Raise(t, <<>>, "Invalid target state")
    ELSE IF is_sealed(WorkitemOf(t, at)) THEN Raise(t, <<>>, "Workitem is sealed")
    ELSE CompleteWorkitemVoided(s, at, Done(t, <<>>))

\* a CompleteWorkitem that takes any target state
CompleteWorkitemAnyTarget(s, t, at) ==
    IF at.ui = 0 THEN Raise(t, <<>>, "KeyError")
    ELSE IF at.bi = 0 THEN Raise(t, <<>>, "Workitem not found")
    ELSE IF is_sealed(WorkitemOf(t, at)) THEN Raise(t, <<>>, "Workitem is sealed")
    ELSE CompleteWorkitemVoided(s, at, VoidRunningPomodoro(s, t, WorkitemOf(t, at)))

CompleteWorkitemAt(s, t, at) ==
    IF at.ui = 0 THEN Raise(t, <<>>, "KeyError")
    ELSE IF at.bi = 0 THEN Raise(t, <<>>, "Workitem not found")
    ELSE IF s.target \notin {"finished", "canceled"} THEN Raise(t, <<>>, "Invalid target state")
    ELSE IF is_sealed(WorkitemOf(t, at)) THEN Raise(t, <<>>, "Workitem is sealed")
    ELSE CompleteWorkitemVoided(s, at, VoidRunningPomodoro(s, t, WorkitemOf(t, at)))

CompleteWorkitemStrategy(s, t) == CompleteWorkitemAt(s, t, LocateWorkitem(t, s.user, s.uid))

\* the for loop of DeleteBacklogStrategy.execute over list(backlog.values()): r is what
\* the DeleteWorkitem of the first uid did
RECURSIVE DeleteWorkitems(_, _, _, _)
DeleteWorkitemsNext(s, uids, ev, r) ==
    IF r.err # "" THEN Raise(r.t, ev \o r.ev, r.err)
    ELSE DeleteWorkitems(s, r.t, Tail(uids), ev \o r.ev)

DeleteWorkitems(s, t, uids, ev) ==
    IF uids = <<>> THEN Done(t, ev)
    ELSE DeleteWorkitemsNext(s, uids, ev,
            execute_another(DeleteWorkitemStrategy(
                [s EXCEPT !.cls = "DeleteWorkitem", !.uid = Head(uids)], t)))

\* DeleteBacklog(uid), once the loop over its work items is through (d)
DeleteBacklogEmptied(s, at, d) ==
    IF d.err # "" THEN d
    ELSE Done([BacklogUpdated(d.t, at, s.when) EXCEPT !.users[at.ui].backlogs = RemoveAt(@, at.bi)],
              d.ev \o <<"AfterBacklogDelete">>)

\* a DeleteBacklog that takes a missing backlog for one already deleted
DeleteBacklogIfPresent(s, t, at) ==
    IF at.ui = 0 THEN Raise(t, <<>>, "KeyError")
    ELSE IF at.bi = 0 THEN Done(t, <<"BeforeBacklogDelete", "AfterBacklogDelete">>)
    ELSE DeleteBacklogEmptied(s, at,
            DeleteWorkitems(s, t,
                            [i \in 1..Len(t.users[at.ui].backlogs[at.bi].items) |->
                                t.users[at.ui].backlogs[at.bi].items[i].uid],
                            <<"BeforeBacklogDelete">>))

DeleteBacklogAt(s, t, at) ==
    IF at.ui = 0 THEN Raise(t, <<>>, "KeyError")
    ELSE IF at.bi = 0 THEN Raise(t, <<>>, "Backlog not found")
    ELSE DeleteBacklogEmptied(s, at,
            DeleteWorkitems(s, t,
                            [i \in 1..Len(t.users[at.ui].backlogs[at.bi].items) |->
                                t.users[at.ui].backlogs[at.bi].items[i].uid],
                            <<"BeforeBacklogDelete">>))

DeleteBacklogStrategy(s, t) == DeleteBacklogAt(s, t, LocateBacklog(t, s.user, s.uid))

\* AddPomodoro(workitem uid, how many)
AddPomodoroAt(s, t, at) ==
    IF at.ui = 0 THEN Raise(t, <<>>, "KeyError")
    ELSE IF at.bi = 0 THEN Raise(t, <<>>, "Workitem not found")
    ELSE IF s.num < 1 THEN Raise(t, <<>>, "Cannot add less than one pomodoro")
    ELSE IF is_sealed(WorkitemOf(t, at)) THEN Raise(t, <<>>, "Workitem is sealed")
    ELSE Done(WorkitemUpdated(
                 [t EXCEPT !.users[at.ui].backlogs[at.bi].items[at.wi].pomodoros =
                      @ \o [i \in 1..s.num |->
                               NewPomodoro(DefaultWorkDuration, DefaultRestDuration)]],
                 at, s.when),
              <<"BeforePomodoroAdd", "AfterPomodoroAdd">>)

AddPomodoroStrategy(s, t) == AddPomodoroAt(s, t, LocateWorkitem(t, s.user, s.uid))

\* the Pomodoros left after the last n startable ones are taken away
RECURSIVE RemoveLastStartable(_, _)
RemoveLastStartable(ps, n) ==
    IF n = 0 \/ ps = <<>> THEN ps
    ELSE IF pomodoro_is_startable(ps[Len(ps)])
    THEN RemoveLastStartable(SubSeq(ps, 1, Len(ps) - 1), n - 1)
    ELSE Append(RemoveLastStartable(SubSeq(ps, 1, Len(ps) - 1), n), ps[Len(ps)])

\* RemovePomodoro(workitem uid, how many)
RemovePomodoroAt(s, t, at) ==
    IF at.ui = 0 THEN Raise(t, <<>>, "KeyError")
    ELSE IF at.bi = 0 THEN Raise(t, <<>>, "Workitem not found")
    ELSE IF s.num < 1 THEN Raise(t, <<>>, "Cannot remove less than one pomodoro")
    ELSE IF is_sealed(WorkitemOf(t, at)) THEN Raise(t, <<>>, "Workitem is sealed")
    ELSE IF Cardinality({i \in 1..Len(WorkitemOf(t, at).pomodoros) :
                            pomodoro_is_startable(WorkitemOf(t, at).pomodoros[i])}) < s.num
    THEN Raise(t, <<>>, "Not enough startable pomodoros")
    ELSE Done(WorkitemUpdated(
                 [t EXCEPT !.users[at.ui].backlogs[at.bi].items[at.wi].pomodoros =
                      RemoveLastStartable(@, s.num)],
                 at, s.when),
              <<"BeforePomodoroRemove", "AfterPomodoroRemove">>)

RemovePomodoroStrategy(s, t) == RemovePomodoroAt(s, t, LocateWorkitem(t, s.user, s.uid))

\* the work items of the tree that hold a working or resting Pomodoro, in iteration order
RunningWorkitems(t) ==
    SelectSeq(workitems(t), LAMBDA pos : has_running_pomodoro(WorkitemAt(t, pos)))

\* the start of the first startable Pomodoro of the work item
StartFirstStartable(s, t, at) ==
    IF ~is_startable(WorkitemOf(t, at)) THEN Raise(t, <<>>, "Workitem is not startable")
    ELSE Done(WorkitemUpdated(
                 [t EXCEPT !.users[at.ui].backlogs[at.bi].items[at.wi]
                               .pomodoros[StartableIndex(WorkitemOf(t, at))] =
                               [@ EXCEPT !.state = "working",
                                         !.work_duration = s.num,
                                         !.since = s.when],
                           !.users[at.ui].backlogs[at.bi].items[at.wi].state = "running"],
                 at, s.when),
              IF is_planned(WorkitemOf(t, at))
              THEN <<"BeforePomodoroWorkStart", "BeforeWorkitemStart",
                     "AfterWorkitemStart", "AfterPomodoroWorkStart">>
              ELSE <<"BeforePomodoroWorkStart", "AfterPomodoroWorkStart">>)

\* StartWork(workitem uid, work duration); running is RunningWorkitems(t)
StartWorkAt(s, t, at, running) ==
    IF at.ui = 0 THEN Raise(t, <<>>, "KeyError")
    ELSE IF at.bi = 0 THEN Raise(t, <<>>, "Workitem not found")
    ELSE IF running # <<>> THEN AutoSealSentinel(t, WorkitemAt(t, Head(running)))
    ELSE StartFirstStartable(s, t, at)

StartWorkStrategy(s, t) ==
    StartWorkAt(s, t, LocateWorkitem(t, s.user, s.uid), RunningWorkitems(t))

\* StartRest(workitem uid, rest duration)
StartRestAt(s, t, at) ==
    IF at.ui = 0 THEN Raise(t, <<>>, "KeyError")
    ELSE IF at.bi = 0 THEN Raise(t, <<>>, "Workitem not found")
    ELSE IF ~has_running_pomodoro(WorkitemOf(t, at))
    THEN Raise(t, <<>>, "Workitem is not working")
    ELSE IF ~is_working(WorkitemOf(t, at).pomodoros[RunningIndex(WorkitemOf(t, at))])
    THEN Raise(t, <<>>, "Workitem is not working")
    ELSE Done(WorkitemUpdated(
                 [t EXCEPT !.users[at.ui].backlogs[at.bi].items[at.wi]
                               .pomodoros[RunningIndex(WorkitemOf(t, at))] =
                               [@ EXCEPT !.state = "resting",
                                         !.rest_duration = s.num,
                                         !.since = s.when]],
                 at, s.when),
              <<"BeforePomodoroRestStart", "AfterPomodoroRestStart">>)

StartRestStrategy(s, t) == StartRestAt(s, t, LocateWorkitem(t, s.user, s.uid))

\* a FinishPomodoroInternal that puts the work item back to planned
FinishPomodoroInternalReplanning(s, t, at) ==
    IF at.ui = 0 THEN Raise(t, <<>>, "KeyError")
    ELSE IF at.bi = 0 THEN Raise(t, <<>>, "Workitem not found")
    ELSE IF ~has_running_pomodoro(WorkitemOf(t, at)) THEN Raise(t, <<>>, "Workitem is not running")
    ELSE Done(WorkitemUpdated(
                 [t EXCEPT !.users[at.ui].backlogs[at.bi].items[at.wi]
                               .pomodoros[RunningIndex(WorkitemOf(t, at))].state = "finished",
                           !.users[at.ui].backlogs[at.bi].items[at.wi].state = "planned"],
                 at, s.when),
              <<"BeforePomodoroComplete", "AfterPomodoroComplete">>)

\* FinishPomodoroInternal(workitem uid): the implicit completion the reconciler synthesizes
FinishPomodoroInternalAt(s, t, at) ==
    IF at.ui = 0 THEN Raise(t, <<>>, "KeyError")
    ELSE IF at.bi = 0 THEN Raise(t, <<>>, "Workitem not found")
    ELSE IF ~has_running_pomodoro(WorkitemOf(t, at)) THEN Raise(t, <<>>, "Workitem is not running")
    ELSE Done(WorkitemUpdated(
                 [t EXCEPT !.users[at.ui].backlogs[at.bi].items[at.wi]
                               .pomodoros[RunningIndex(WorkitemOf(t, at))].state = "finished"],
                 at, s.when),
              <<"BeforePomodoroComplete", "AfterPomodoroComplete">>)

FinishPomodoroInternalStrategy(s, t) ==
    FinishPomodoroInternalAt(s, t, LocateWorkitem(t, s.user, s.uid))

\* strategy.execute(emit, data): the dispatch on the strategy's class
StrategyExecute(s, t) ==
    CASE s.cls = "CreateUser" -> CreateUserStrategy(s, t)
      [] s.cls = "CreateBacklog" -> CreateBacklogStrategy(s, t)
      [] s.cls = "RenameBacklog" -> RenameBacklogStrategy(s, t)
      [] s.cls = "DeleteBacklog" -> DeleteBacklogStrategy(s, t)
      [] s.cls = "CreateWorkitem" -> CreateWorkitemStrategy(s, t)
      [] s.cls = "RenameWorkitem" -> RenameWorkitemStrategy(s, t)
      [] s.cls = "DeleteWorkitem" -> DeleteWorkitemStrategy(s, t)
      [] s.cls = "CompleteWorkitem" -> CompleteWorkitemStrategy(s, t)
      [] s.cls = "AddPomodoro" -> AddPomodoroStrategy(s, t)
      [] s.cls = "RemovePomodoro" -> RemovePomodoroStrategy(s, t)
      [] s.cls = "StartWork" -> StartWorkStrategy(s, t)
      [] s.cls = "StartRest" -> StartRestStrategy(s, t)
      [] s.cls = "FinishPomodoroInternal" -> FinishPomodoroInternalStrategy(s, t)
      [] s.cls = "CompletePomodoro" -> CompletePomodoroStrategy(s, t)

\* ---------------------------------------------------------- event source
\* The source's own state: the tree (get_data()), _last_seq and the durable log
NewSource(s) == [t |-> EmptyTenant, last_seq |-> 0, log |-> <<>>, settings |-> s]
EmptySource == NewSource(DefaultSettings)

NoStrategy == Strategy(0, 0, "", Params("", "", "", "", 0, ""))

\* one execute_prepared_strategy call: how often it invoked strategy.execute and the
\* reconciler, what the two invocations returned ("none", "auto-seal", "raise", "-") and
\* how the reconciler ended ("done", "raise", "-")
Call(s, calls, seals, first, second, reconciled) ==
    [cls |-> s.cls, seq |-> s.seq, calls |-> calls, seals |-> seals, first |-> first,
     second |-> second, reconciled |-> reconciled]

Outcome(r) == IF r.err # "" THEN "raise" ELSE r.res

\* what a handler of the source hands back: the source it leaves, the events emitted, the
\* exception raised, the work item the exception names, the strategies the reconciler
\* synthesized and the execute_prepared_strategy calls made
Result(src, ev, err, who, synth, eps) ==
    [src |-> src, ev |-> ev, err |-> err, who |-> who, synth |-> synth, eps |-> eps,
     res |-> "done"]

\* _append(strategies): stores them in order, or raises (a persistence failure)
_append(src, strategies, ok) ==
    IF ok THEN [src |-> [src EXCEPT !.log = @ \o strategies], err |-> ""]
    ELSE [src |-> src, err |-> "IOError"]

\* every Pomodoro of the tree, as <<user, backlog, workitem, pomodoro>> in iteration order
RECURSIVE PomodoroPositions(_, _)
PomodoroPositions(t, poss) ==
    IF poss = <<>> THEN <<>>
    ELSE [i \in 1..Len(WorkitemAt(t, Head(poss)).pomodoros) |->
              <<Head(poss)[1], Head(poss)[2], Head(poss)[3], i>>]
         \o PomodoroPositions(t, Tail(poss))

\* a reconciler that only ever puts working Pomodoros to rest
SynthesizedWorkingOnly(workitem, pomodoro, clock) ==
    IF is_working(pomodoro)
       /\ remaining_time_in_current_state(pomodoro, clock) + AutoSealAfter < 0
    THEN Strategy(0, planned_end_of_work(pomodoro), "",
                  Params("StartRest", workitem.uid, "", "", pomodoro.rest_duration, ""))
    ELSE NoStrategy

\* a reconciler that dates what it synthesizes at the wall clock
SynthesizedNow(workitem, pomodoro, clock) ==
    IF ~is_running(pomodoro) THEN NoStrategy
    ELSE IF total_remaining_time(pomodoro, clock) + AutoSealAfter < 0
    THEN Strategy(0, clock, "", Params("FinishPomodoroInternal", workitem.uid, "", "", 0, ""))
    ELSE IF is_working(pomodoro)
            /\ remaining_time_in_current_state(pomodoro, clock) + AutoSealAfter < 0
    THEN Strategy(0, clock, "", Params("StartRest", workitem.uid, "", "", pomodoro.rest_duration, ""))
    ELSE NoStrategy

\* a reconciler whose comparisons let a Pomodoro exactly at the end of the grace interval through
SynthesizedAtBoundary(workitem, pomodoro, clock) ==
    IF ~is_running(pomodoro) THEN NoStrategy
    ELSE IF total_remaining_time(pomodoro, clock) + AutoSealAfter <= 0
    THEN Strategy(0, planned_end_of_rest(pomodoro), "",
                  Params("FinishPomodoroInternal", workitem.uid, "", "", 0, ""))
    ELSE IF is_working(pomodoro)
            /\ remaining_time_in_current_state(pomodoro, clock) + AutoSealAfter <= 0
    THEN Strategy(0, planned_end_of_work(pomodoro), "",
                  Params("StartRest", workitem.uid, "", "", pomodoro.rest_duration, ""))
    ELSE NoStrategy

\* a reconciler that hands StartRest no rest duration
SynthesizedNoRest(workitem, pomodoro, clock) ==
    IF ~is_running(pomodoro) THEN NoStrategy
    ELSE IF total_remaining_time(pomodoro, clock) + AutoSealAfter < 0
    THEN Strategy(0, planned_end_of_rest(pomodoro), "",
                  Params("FinishPomodoroInternal", workitem.uid, "", "", 0, ""))
    ELSE IF is_working(pomodoro)
            /\ remaining_time_in_current_state(pomodoro, clock) + AutoSealAfter < 0
    THEN Strategy(0, planned_end_of_work(pomodoro), "",
                  Params("StartRest", workitem.uid, "", "", 0, ""))
    ELSE NoStrategy

\* the body of the loops of auto_seal: what the reconciler hands to its executor for one
\* Pomodoro (class, parameters, when), NoStrategy when it hands nothing
Synthesized(workitem, pomodoro, clock) ==
    IF ~is_running(pomodoro) THEN NoStrategy
    ELSE IF total_remaining_time(pomodoro, clock) + AutoSealAfter < 0
    THEN Strategy(0, planned_end_of_rest(pomodoro), "",
                  Params("FinishPomodoroInternal", workitem.uid, "", "", 0, ""))
    ELSE IF is_working(pomodoro)
            /\ remaining_time_in_current_state(pomodoro, clock) + AutoSealAfter < 0
    THEN Strategy(0, planned_end_of_work(pomodoro), "",
                  Params("StartRest", workitem.uid, "", "", pomodoro.rest_duration, ""))
    ELSE NoStrategy

RECURSIVE execute(_, _, _, _, _, _)
RECURSIVE AutoSealLoop(_, _, _, _, _)
RECURSIVE auto_seal(_, _, _)

\* the loop of auto_seal after its executor returned x or raised
AutoSealExecuted(poss, clock, ok, acc, x) ==
    IF x.err # ""
    THEN Result(x.src, acc.ev \o x.ev, x.err, x.who,
                Append(acc.synth, [s |-> x.s, persist |-> FALSE]), acc.eps \o x.eps)
    ELSE AutoSealLoop(x.src, Tail(poss), clock, ok,
                      [ev |-> acc.ev \o x.ev,
                       synth |-> Append(acc.synth, [s |-> x.s, persist |-> FALSE]),
                       eps |-> acc.eps \o x.eps])

\* an executor that drops the when it is handed, so that execute() stamps now()
AutoSealStepNow(src, poss, clock, ok, acc, p) ==
    IF p = NoStrategy THEN AutoSealLoop(src, Tail(poss), clock, ok, acc)
    ELSE AutoSealExecuted(poss, clock, ok, acc, execute(p, FALSE, clock, src, clock, ok))

\* an executor that is handed persist = True
AutoSealStepPersisting(src, poss, clock, ok, acc, p) ==
    IF p = NoStrategy THEN AutoSealLoop(src, Tail(poss), clock, ok, acc)
    ELSE AutoSealExecuted(poss, clock, ok, acc, execute(p, TRUE, p.when, src, clock, ok))

\* executor(cls, params, False, when): the lambda of AbstractEventSource.auto_seal
AutoSealStep(src, poss, clock, ok, acc, p) ==
    IF p = NoStrategy THEN AutoSealLoop(src, Tail(poss), clock, ok, acc)
    ELSE AutoSealExecuted(poss, clock, ok, acc, execute(p, FALSE, p.when, src, clock, ok))

\* auto_seal(workitems, delta, executor): acc carries the events, the synthesized
\* strategies and the nested calls so far
AutoSealLoop(src, poss, clock, ok, acc) ==
    IF poss = <<>> THEN Result(src, acc.ev, "", Nobody, acc.synth, acc.eps)
    ELSE AutoSealStep(src, poss, clock, ok, acc,
                      Synthesized(WorkitemAt(src.t, Head(poss)),
                                  WorkitemAt(src.t, Head(poss)).pomodoros[Head(poss)[4]],
                                  clock))

\* AbstractEventSource.auto_seal()
auto_seal(src, clock, ok) ==
    AutoSealLoop(src, PomodoroPositions(src.t, workitems(src.t)), clock, ok,
                 [ev |-> <<>>, synth |-> <<>>, eps |-> <<>>])

\* a retry that takes a second sentinel for a success
RetriedLenient(s, ev, a, r2) ==
    Result([a.src EXCEPT !.t = r2.t], ev \o r2.ev, r2.err, Nobody, a.synth,
           a.eps \o <<Call(s, 2, 1, "auto-seal", Outcome(r2), Outcome(a))>>)

\* execute_prepared_strategy after the retry of strategy.execute returned r2 or raised
Retried(s, ev, a, r2) ==
    Result([a.src EXCEPT !.t = r2.t], ev \o r2.ev,
           IF r2.err = "" /\ r2.res = "auto-seal" THEN "There is another running pomodoro"
           ELSE r2.err,
           IF r2.err = "" /\ r2.res = "auto-seal" THEN r2.who ELSE Nobody,
           a.synth,
           a.eps \o <<Call(s, 2, 1, "auto-seal", Outcome(r2), Outcome(a))>>)

\* a retry that goes ahead although the reconciler raised
ReconciledRegardless(s, ev, a) ==
    Retried(s, ev \o a.ev, a, StrategyExecute(s, a.src.t))

\* execute_prepared_strategy after self.auto_seal() returned a or raised
Reconciled(s, ev, a) ==
    IF a.err # ""
    THEN Result(a.src, ev \o a.ev, a.err, a.who, a.synth,
                a.eps \o <<Call(s, 1, 1, "auto-seal", "-", "raise")>>)
    ELSE Retried(s, ev \o a.ev, a, StrategyExecute(s, a.src.t))

\* an execute_prepared_strategy that emits AfterMessageProcessed before strategy.execute
ExecutedAfterFirst(s, src, clock, ok, r1) ==
    IF r1.err # ""
    THEN Result([src EXCEPT !.t = r1.t],
                <<"BeforeMessageProcessed", "AfterMessageProcessed">> \o r1.ev, r1.err, Nobody,
                <<>>, <<Call(s, 1, 0, "raise", "-", "-")>>)
    ELSE IF r1.res # "auto-seal"
    THEN Result([src EXCEPT !.t = r1.t],
                <<"BeforeMessageProcessed", "AfterMessageProcessed">> \o r1.ev, "", Nobody,
                <<>>, <<Call(s, 1, 0, r1.res, "-", "-")>>)
    ELSE Reconciled(s, <<"BeforeMessageProcessed", "AfterMessageProcessed">> \o r1.ev,
                    auto_seal([src EXCEPT !.t = r1.t], clock, ok))

\* an execute_prepared_strategy that runs the reconciler whatever strategy.execute returned
ExecutedReconciling(s, src, clock, ok, r1) ==
    IF r1.err # ""
    THEN Result([src EXCEPT !.t = r1.t], <<"BeforeMessageProcessed">> \o r1.ev, r1.err, Nobody,
                <<>>, <<Call(s, 1, 0, "raise", "-", "-")>>)
    ELSE Reconciled(s, <<"BeforeMessageProcessed">> \o r1.ev \o <<"AfterMessageProcessed">>,
                    auto_seal([src EXCEPT !.t = r1.t], clock, ok))

\* execute_prepared_strategy after the first strategy.execute returned r1 or raised
Executed(s, src, clock, ok, r1) ==
    IF r1.err # ""
    THEN Result([src EXCEPT !.t = r1.t], <<"BeforeMessageProcessed">> \o r1.ev, r1.err, Nobody,
                <<>>, <<Call(s, 1, 0, "raise", "-", "-")>>)
    ELSE IF r1.res # "auto-seal"
    THEN Result([src EXCEPT !.t = r1.t],
                <<"BeforeMessageProcessed">> \o r1.ev \o <<"AfterMessageProcessed">>, "", Nobody,
                <<>>, <<Call(s, 1, 0, r1.res, "-", "-")>>)
    ELSE Reconciled(s, <<"BeforeMessageProcessed">> \o r1.ev \o <<"AfterMessageProcessed">>,
                    auto_seal([src EXCEPT !.t = r1.t], clock, ok))

\* _sequence_error(prev, next)
_sequence_error(prev, next) == "Strategies must go in sequence"

\* an execute_prepared_strategy that checks the sequence of what it is handed
execute_prepared_in_sequence(s, src, clock, ok) ==
    IF s.seq # src.last_seq + 1
    THEN Result(src, <<>>, _sequence_error(src.last_seq, s.seq), Nobody, <<>>, <<>>)
    ELSE Executed(s, src, clock, ok, StrategyExecute(s, src.t))

\* an execute_prepared_strategy that takes the sequence number of the strategy it ran
execute_prepared_counting(s, src, clock, ok) ==
    [src |-> [Executed(s, src, clock, ok, StrategyExecute(s, src.t)).src
                 EXCEPT !.last_seq = s.seq]]
    @@ Executed(s, src, clock, ok, StrategyExecute(s, src.t))

\* AbstractEventSource.execute_prepared_strategy(strategy, auto)
execute_prepared_strategy(s, src, clock, ok) ==
    Executed(s, src, clock, ok, StrategyExecute(s, src.t))

\* an execute that takes the sequence number whether it was told to persist or not
SavedCounting(s, persist, ok, r) ==
    IF r.err # "" THEN r @@ [s |-> s]
    ELSE IF ~persist THEN [r EXCEPT !.src = [r.src EXCEPT !.last_seq = s.seq]] @@ [s |-> s]
    ELSE [r EXCEPT !.src = _append([r.src EXCEPT !.last_seq = s.seq], <<s>>, ok).src,
                   !.err = _append([r.src EXCEPT !.last_seq = s.seq], <<s>>, ok).err]
         @@ [s |-> s]

\* an execute that takes the sequence number whether the strategy raised or not
SavedRegardless(s, persist, ok, r) ==
    IF ~persist THEN r @@ [s |-> s]
    ELSE [r EXCEPT !.src = _append([r.src EXCEPT !.last_seq = s.seq], <<s>>, ok).src] @@ [s |-> s]

\* an execute that also stores an entry for every sub-strategy run through execute_another
SavedWithNested(s, persist, ok, r) ==
    IF r.err # "" \/ ~persist THEN r @@ [s |-> s]
    ELSE [r EXCEPT !.src = [r.src EXCEPT
                               !.last_seq = s.seq,
                               !.log = @ \o [i \in 1..Len(SelectSeq(r.ev,
                                                LAMBDA e : e = "BeforeMessageProcessed")) |-> s]]]
         @@ [s |-> s]

\* execute after execute_prepared_strategy returned r or raised: "if persist:",
\* self._last_seq = new_sequence, then self._append([s])
Saved(s, persist, ok, r) ==
    IF r.err # "" \/ ~persist THEN r @@ [s |-> s]
    ELSE [r EXCEPT !.src = _append([r.src EXCEPT !.last_seq = s.seq], <<s>>, ok).src,
                   !.err = _append([r.src EXCEPT !.last_seq = s.seq], <<s>>, ok).err]
         @@ [s |-> s]

\* AbstractEventSource.execute(strategy_class, params, persist, when, auto)
execute(p, persist, when, src, clock, ok) ==
    Saved(Strategy(src.last_seq + 1, when, get_username(src.settings), p), persist, ok,
          execute_prepared_strategy(Strategy(src.last_seq + 1, when,
                                             get_username(src.settings), p),
                                    src, clock, ok))

\* get_init_strategy(): the CreateUser that start() issues for a source with no history
get_init_strategy(src, clock) ==
    Strategy(1, clock, ADMIN_USER,
             Params("CreateUser", get_username(src.settings), "", Fullname, 0, ""))

\* the replay loop of start(): every entry, in stored order, through
\* execute_prepared_strategy; an entry out of sequence or a failing one aborts the replay.
\* acc.handed are the entries handed to execute_prepared_strategy so far
RECURSIVE ReplayLog(_, _, _, _)
Replayed(entries, clock, acc, r) ==
    IF r.err # ""
    THEN Result(r.src, acc.ev \o r.ev, r.err, r.who, acc.synth \o r.synth, acc.eps \o r.eps)
         @@ [s |-> Head(entries), handed |-> Append(acc.handed, Head(entries))]
    ELSE ReplayLog(r.src, Tail(entries), clock,
                   [ev |-> acc.ev \o r.ev, synth |-> acc.synth \o r.synth,
                    eps |-> acc.eps \o r.eps, handed |-> Append(acc.handed, Head(entries))])

ReplayLog(src, entries, clock, acc) ==
    IF entries = <<>>
    THEN Result(src, acc.ev \o <<"SourceMessagesProcessed">>, "", Nobody, acc.synth, acc.eps)
         @@ [s |-> NoStrategy, handed |-> acc.handed]
    ELSE IF Head(entries).seq # src.last_seq + 1
    THEN Result(src, acc.ev, _sequence_error(src.last_seq, Head(entries).seq), Nobody,
                acc.synth, acc.eps)
         @@ [s |-> Head(entries), handed |-> acc.handed]
    ELSE Replayed(entries, clock, acc,
                  execute_prepared_strategy(Head(entries),
                                            [src EXCEPT !.last_seq = Head(entries).seq],
                                            clock, TRUE))

\* start() on a source with no history: it first stores its init strategy
WithInitStrategy(src, clock) ==
    IF src.log = <<>> THEN [src EXCEPT !.log = <<get_init_strategy(src, clock)>>] ELSE src

\* the replay of start(), bracketed by SourceMessagesRequested / SourceMessagesProcessed
Replay(src, clock) ==
    ReplayLog(src, src.log, clock,
              [ev |-> <<"SourceMessagesRequested">>, synth |-> <<>>, eps |-> <<>>,
               handed |-> <<>>])

\* start()
start(src, clock) == Replay(WithInitStrategy(src, clock), clock)

\* the events of the source itself, as opposed to those of the strategies and of
\* execute_prepared_strategy
SourceEvents == {"SourceMessagesRequested", "SourceMessagesProcessed"}

\* a start() that never mutes the emitter
DeliveredUnmuted(ev, mute_events) == ev

\* start(mute_events): what the subscribers receive of the events ev emitted during
\* start(); with mute_events the emitter is muted for the length of the replay, between
\* SourceMessagesRequested and SourceMessagesProcessed
Delivered(ev, mute_events) ==
    IF mute_events THEN SelectSeq(ev, LAMBDA e : e \in SourceEvents) ELSE ev

\* ------------------------------------------------------------- the inputs
WorkDurations == {DefaultWorkDuration}
RestDurations == {DefaultRestDuration}

LocalParams ==
         { Params("CreateBacklog", b, "", "First", 0, "") : b \in BacklogUids }
    \cup { Params("RenameBacklog", b, "", "Renamed", 0, "") : b \in BacklogUids }
    \cup { Params("DeleteBacklog", b, "", "", 0, "") : b \in BacklogUids }
    \cup { Params("CreateWorkitem", x[1], x[2], "First", 0, "") : x \in WorkitemUids \X BacklogUids }
    \cup { Params("RenameWorkitem", w, "", "Renamed", 0, "") : w \in WorkitemUids }
    \cup { Params("DeleteWorkitem", w, "", "", 0, "") : w \in WorkitemUids }
    \cup { Params("CompleteWorkitem", w, "", "", 0, g) : w \in WorkitemUids, g \in TargetStates }
    \cup { Params("AddPomodoro", w, "", "", 1, "") : w \in WorkitemUids }
    \cup { Params("RemovePomodoro", w, "", "", 1, "") : w \in WorkitemUids }
    \cup { Params("StartWork", w, "", "", d, "") : w \in WorkitemUids, d \in WorkDurations }
    \cup { Params("StartRest", w, "", "", d, "") : w \in WorkitemUids, d \in RestDurations }
    \cup { Params("CompletePomodoro", w, "", "", 0, "canceled") : w \in WorkitemUids }

\* the strategies a caller hands to execute_prepared_strategy, and their sequence
\* numbers relative to _last_seq
PreparedParams ==
    { Params("CreateWorkitem", "w2", "b1", "First", 0, ""),
      Params("StartWork", "w2", "", "", DefaultWorkDuration, "") }
SeqOffsets == {0, 1, 2}

\* the caps of the model: no work item holds more than MaxPomodoros Pomodoros
WithinBounds(t) ==
    \A pos \in WorkitemPositions(t) : Len(WorkitemAt(t, pos).pomodoros) <= MaxPomodoros

Replicas == {1, 2}
NoReplica ==
    [started |-> FALSE, own |-> FALSE, t |-> EmptyTenant, last_seq |-> 0, err |-> "",
     s |-> NoStrategy, eps |-> <<>>, at |-> 0, cur |-> EmptySource,
     ex |-> [done |-> FALSE, s |-> NoStrategy, err |-> ""],
     read |-> <<>>, handed |-> <<>>, ev |-> <<>>, delivered |-> <<>>]

\* ------------------------------------------------------------- scenarios
\* A run starts in a state the source reaches from construction: a scenario is the
\* calls (start(), execute(...) with persist = True, auto_seal(), clock advances) that
\* lead there.
Call_start == [k |-> "start", p |-> NoStrategy, ok |-> TRUE, d |-> 0]
Call_execute(p) == [k |-> "execute", p |-> p, ok |-> TRUE, d |-> 0]
Call_execute_unsaved(p) == [k |-> "execute", p |-> p, ok |-> FALSE, d |-> 0]
Call_auto_seal == [k |-> "auto_seal", p |-> NoStrategy, ok |-> TRUE, d |-> 0]
Call_tick(d) == [k |-> "tick", p |-> NoStrategy, ok |-> TRUE, d |-> d]

RECURSIVE RunScenario(_, _)
RunScenario(st, calls) ==
    IF calls = <<>> THEN st
    ELSE RunScenario(
            CASE Head(calls).k = "start" ->
                    [st EXCEPT !.src = start(st.src, st.now).src, !.phase = "live"]
              [] Head(calls).k = "execute" ->
                    [st EXCEPT !.src = execute(Head(calls).p, TRUE, st.now, st.src, st.now,
                                               Head(calls).ok).src]
              [] Head(calls).k = "auto_seal" ->
                    [st EXCEPT !.src = auto_seal(st.src, st.now, TRUE).src]
              [] Head(calls).k = "tick" -> [st EXCEPT !.now = @ + Head(calls).d],
            Tail(calls))

Constructed == [src |-> EmptySource, now |-> 0, phase |-> "new"]

\* start(); one backlog with two work items, one Pomodoro each
StandardBacklog ==
    << Call_start,
       Call_execute(Params("CreateBacklog", "b1", "", "First", 0, "")),
       Call_execute(Params("CreateWorkitem", "w1", "b1", "First", 0, "")),
       Call_execute(Params("CreateWorkitem", "w2", "b1", "First", 0, "")),
       Call_execute(Params("AddPomodoro", "w1", "", "", 1, "")),
       Call_execute(Params("AddPomodoro", "w2", "", "", 1, "")) >>

\* the same, with the Pomodoro of w1 started at time 0
Working == Append(StandardBacklog,
                  Call_execute(Params("StartWork", "w1", "", "", DefaultWorkDuration, "")))

\* the same; the reconciler sealed the Pomodoro of w1 when it was over, and the
\* Pomodoro of w2 was started then
Sealed ==
    Working \o << Call_tick(DefaultWorkDuration + DefaultRestDuration + AutoSealAfter + 1),
                  Call_auto_seal,
                  Call_execute(Params("StartWork", "w2", "", "", DefaultWorkDuration, "")) >>

\* two backlogs; b2 holds a running w1 and a w2, and b1 later got a work item w1 of its own
TwoBacklogs ==
    << Call_start,
       Call_execute(Params("CreateBacklog", "b1", "", "First", 0, "")),
       Call_execute(Params("CreateBacklog", "b2", "", "First", 0, "")),
       Call_execute(Params("CreateWorkitem", "w1", "b2", "First", 0, "")),
       Call_execute(Params("CreateWorkitem", "w2", "b2", "First", 0, "")),
       Call_execute(Params("AddPomodoro", "w1", "", "", 1, "")),
       Call_execute(Params("AddPomodoro", "w2", "", "", 1, "")),
       Call_execute(Params("StartWork", "w1", "", "", DefaultWorkDuration, "")),
       Call_execute(Params("CreateWorkitem", "w1", "b1", "First", 0, "")) >>

\* a log with a hole: the append of the CreateWorkitem raised
UnsavedAppend ==
    << Call_start,
       Call_execute(Params("CreateBacklog", "b1", "", "First", 0, "")),
       Call_tick(1),
       Call_execute_unsaved(Params("CreateWorkitem", "w1", "b1", "First", 0, "")),
       Call_execute(Params("AddPomodoro", "w1", "", "", 2, "")) >>

\* the work item w1 was completed while its Pomodoro was running
Completed ==
    Append(Working, Call_execute(Params("CompleteWorkitem", "w1", "", "", 0, "finished")))

\* the Pomodoro of w1 was put to rest by hand when its work was over
Resting ==
    Working \o << Call_tick(DefaultWorkDuration),
                  Call_execute(Params("StartRest", "w1", "", "", DefaultRestDuration, "")) >>

\* the Pomodoro of w1 is still working while its work is over by more than the grace interval
WorkOver == Append(Working, Call_tick(DefaultWorkDuration + AutoSealAfter + 1))

Scenarios ==
    { <<>>, <<Call_start>>, StandardBacklog, Working, Sealed, TwoBacklogs, UnsavedAppend,
      Completed, Resting, WorkOver }

\* a source constructed with other settings than the defaults, before and after start()
ConstructedWith(s) == [src |-> NewSource(s), now |-> 0, phase |-> "new"]

Fixtures ==
         { RunScenario(Constructed, sc) : sc \in Scenarios }
    \cup { RunScenario(ConstructedWith(s), sc) :
                s \in {LocalSettings, RemoteSettings}, sc \in {<<>>, <<Call_start>>} }

\* -------------------------------------------------- integration executor
\* the events integrations are configured for (keys of ALL_EVENTS) and the commands
IntegrationEvents == {"AfterBacklogCreate", "AfterWorkitemCreate"}
Commands == {"notify-send", "beep"}

\* a dict: its entries in insertion order, with distinct keys
Keys(d) == { d[i].key : i \in 1..Len(d) }
Get(d, k) == d[CHOOSE i \in 1..Len(d) : d[i].key = k].value
Put(d, k, v) ==
    IF k \in Keys(d) THEN [d EXCEPT ![CHOOSE i \in 1..Len(d) : d[i].key = k].value = v]
    ELSE Append(d, [key |-> k, value |-> v])

\* d[key] = value for every entry, in order
RECURSIVE Updated(_, _)
Updated(d, entries) ==
    IF entries = <<>> THEN d
    ELSE Updated(Put(d, Head(entries).key, Head(entries).value), Tail(entries))

\* json.loads of a JSON object, given as its members in the order of the text: a dict in
\* that order, the last value of a repeated name at the place of its first
json_loads(text) == Updated(<<>>, text)

\* the callables: the lambda that _sync_subscriptions subscribes, which calls on_event
\* with what the variable event of the call that made it holds, and the bound method
\* self.on_event
Lambda(event) == [fn |-> "lambda", event |-> event]
OnEventMethod == [fn |-> "on_event", event |-> ""]

\* AbstractEventEmitter.on(event, callback) and unsubscribe_one(callback, event)
on(conns, event, callback) == Append(conns, [event |-> event, callback |-> callback])
unsubscribe_one(conns, callback, event) ==
    SelectSeq(conns, LAMBDA c : ~(c.event = event /\ c.callback = callback))

\* the events the first loop subscribes to, in order: those not in _subscribed
NewlySubscribed(d, new_conf) == SelectSeq(new_conf, LAMBDA x : x.key \notin Keys(d))

\* to_delete: the events of _subscribed (d1, after the first loop, where every event of
\* new_conf has got its command) that new_conf lacks
to_delete(d1, new_conf) == Keys(d1) \ Keys(new_conf)

\* what the local variable event can hold when _sync_subscriptions returns: the last
\* element of the last loop that ran, "for event in to_delete" over a set of strings (any
\* of them can come last), else "for event in self._subscribed"
BoundEvents(d, new_conf) ==
    IF to_delete(Updated(d, new_conf), new_conf) # {}
    THEN to_delete(Updated(d, new_conf), new_conf)
    ELSE IF Updated(d, new_conf) = <<>> THEN {""}
    ELSE {Updated(d, new_conf)[Len(Updated(d, new_conf))].key}

\* the emitters' subscriptions after the first loop: one lambda more for every newly
\* subscribed event
RECURSIVE SubscribedAll(_, _, _)
SubscribedAll(conns, entries, event) ==
    IF entries = <<>> THEN conns
    ELSE SubscribedAll(on(conns, Head(entries).key, Lambda(event)), Tail(entries), event)

\* and after the second loop: unsubscribe_one(self.on_event, ...) for every event of to_delete
RECURSIVE UnsubscribedAll(_, _)
UnsubscribedAll(conns, events) ==
    IF events = {} THEN conns
    ELSE UnsubscribedAll(unsubscribe_one(conns, OnEventMethod, CHOOSE e \in events : TRUE),
                         events \ {CHOOSE e \in events : TRUE})

\* IntegrationExecutor._sync_subscriptions(new_conf), event being what the variable of
\* that name holds in the end
_sync_subscriptions(d, conns, new_conf, event) ==
    [subscribed |-> SelectSeq(Updated(d, new_conf),
                              LAMBDA x : x.key \notin to_delete(Updated(d, new_conf), new_conf)),
     connections |-> UnsubscribedAll(
                         SubscribedAll(conns, NewlySubscribed(d, new_conf), event),
                         to_delete(Updated(d, new_conf), new_conf))]

\* IntegrationExecutor.on_event(full_event): the command it hands to Popen, or the
\* KeyError of self._subscribed[full_event]
on_event(d, full_event) ==
    IF full_event \in Keys(d) THEN Get(d, full_event) ELSE "KeyError"

\* the emitter delivers an event to its subscribers in subscription order; a callback
\* that raises ends the delivery
RECURSIVE RanFor(_, _, _)
RanFor(d, conns, event) ==
    IF conns = <<>> THEN <<>>
    ELSE IF Head(conns).event # event THEN RanFor(d, Tail(conns), event)
    ELSE IF on_event(d, Head(conns).callback.event) = "KeyError" THEN <<"KeyError">>
    ELSE <<on_event(d, Head(conns).callback.event)>> \o RanFor(d, Tail(conns), event)

\* IntegrationExecutor.__init__: nothing subscribed, whatever the setting holds
IntegrationConstructed ==
    /\ subscribed = <<>>
    /\ connections = <<>>
    /\ callbacks = <<>>
    /\ fired = [event |-> "", ran |-> <<>>, conf |-> <<>>]
    /\ changes = 0

\* --------------------------------------------------------------- actions
NoCall == [op |-> "init", err |-> "", seq |-> 0, at |-> 0, synth |-> 0]

Init ==
    \E st \in Fixtures :
        /\ tree = st.src.t
        /\ last_seq = st.src.last_seq
        /\ log = st.src.log
        /\ now = st.now
        /\ phase = st.phase
        /\ replicas = [r \in Replicas |-> NoReplica]
        /\ out = [op |-> "init", s |-> NoStrategy, persist |-> FALSE, err |-> "",
                  who |-> Nobody, ev |-> <<>>, synth |-> <<>>, eps |-> <<>>,
                  pre |-> st.src, at |-> st.now, before |-> NoCall, mute |-> FALSE,
                  delivered |-> <<>>]
        /\ steps = 0
        /\ settings = st.src.settings
        /\ IntegrationConstructed

Source == [t |-> tree, last_seq |-> last_seq, log |-> log, settings |-> settings]

\* the handler returned r or raised: the source keeps what r left
Commit(op, persist, r, mute) ==
    /\ WithinBounds(r.src.t)
    /\ tree' = r.src.t
    /\ last_seq' = r.src.last_seq
    /\ log' = r.src.log
    /\ out' = [op |-> op, s |-> r.s, persist |-> persist, err |-> r.err, who |-> r.who,
               ev |-> r.ev, synth |-> r.synth, eps |-> r.eps, pre |-> Source, at |-> now,
               before |-> [op |-> out.op, err |-> out.err, seq |-> out.s.seq, at |-> out.at,
                           synth |-> Len(out.synth)],
               mute |-> mute, delivered |-> Delivered(r.ev, mute)]
    /\ steps' = steps + 1
    /\ UNCHANGED <<settings, integration>>

\* the wall clock advances
Tick(d) ==
    /\ phase = "replay" \/ steps < MaxSteps
    /\ now + d <= MaxTime
    /\ now' = now + d
    /\ steps' = IF phase = "replay" THEN steps ELSE steps + 1
    /\ UNCHANGED <<tree, last_seq, log, phase, replicas, out, settings, integration>>

\* source.start(mute_events) on the new source
Start(mute_events) ==
    /\ phase = "new"
    /\ steps < MaxSteps
    /\ Commit("start", FALSE, start(Source, now), mute_events)
    /\ phase' = "live"
    /\ UNCHANGED <<now, replicas>>

\* source.execute(strategy_class, params): a local caller, persist = True, when = now
Execute(p, ok) ==
    /\ phase = "live"
    /\ steps < MaxSteps
    /\ Commit("execute", TRUE, execute(p, TRUE, now, Source, now, ok), FALSE)
    /\ UNCHANGED <<now, phase, replicas>>

\* source.execute_prepared_strategy(strategy): a strategy built by the caller, any sequence
ExecutePrepared(p, k) ==
    /\ phase = "live"
    /\ steps < MaxSteps
    /\ Commit("prepared", FALSE,
              execute_prepared_strategy(Strategy(last_seq + k, now, get_username(settings), p),
                                        Source, now, TRUE)
              @@ [s |-> Strategy(last_seq + k, now, get_username(settings), p)], FALSE)
    /\ UNCHANGED <<now, phase, replicas>>

\* source.auto_seal(): the reconciler run on its own
AutoSeal ==
    /\ phase = "live"
    /\ steps < MaxSteps
    /\ Commit("auto_seal", FALSE, auto_seal(Source, now, TRUE) @@ [s |-> NoStrategy], FALSE)
    /\ UNCHANGED <<now, phase, replicas>>

\* the durable log a fresh source replays: the primary's log as it is stored, or, for a
\* source that starts with no history, its own init strategy followed by the primary's
\* entries after the init strategy
ReplicaLog(own, clock) ==
    IF own THEN WithInitStrategy(NewSource(settings), clock).log \o Tail(log) ELSE log

Replicated(i, own, r) ==
    replicas' = [replicas EXCEPT ![i] =
                    [started |-> TRUE, own |-> own, t |-> r.src.t, last_seq |-> r.src.last_seq,
                     err |-> r.err, s |-> r.s, eps |-> r.eps, at |-> now, cur |-> r.src,
                     ex |-> [done |-> FALSE, s |-> NoStrategy, err |-> ""],
                     read |-> r.src.log, handed |-> r.handed, ev |-> r.ev,
                     delivered |-> Delivered(r.ev, TRUE)]]

\* a fresh source is started over the log: source.start(), mute_events left at its
\* default as every caller does
StartReplica(i, own) ==
    /\ phase \in {"live", "replay"}
    /\ ~replicas[i].started
    /\ Replicated(i, own, start([NewSource(settings) EXCEPT !.log = ReplicaLog(own, now)], now))
    /\ phase' = "replay"
    /\ UNCHANGED <<tree, last_seq, log, now, out, steps, settings, integration>>

Next ==
    \/ \E d \in 1..MaxTime : Tick(d)
    \/ \E mute_events \in BOOLEAN : Start(mute_events)
    \/ \E p \in LocalParams, ok \in BOOLEAN : Execute(p, ok)
    \/ \E p \in PreparedParams, k \in SeqOffsets : ExecutePrepared(p, k)
    \/ AutoSeal

Spec == Init /\ [][Next]_vars

\* the runs that end in replays of the log into fresh sources
\* what a caller executes on a source it has just started
ReplicaParams == { Params("CreateBacklog", "b2", "", "First", 0, "") }

ExecutedOnReplica(i, r) ==
    replicas' = [replicas EXCEPT ![i].cur = r.src,
                                 ![i].ex = [done |-> TRUE, s |-> r.s, err |-> r.err]]

\* source.execute(strategy_class, params) on a started source, whether its start() returned
\* or raised: execute() looks at no record of an earlier failure
ExecuteReplica(i, p) ==
    /\ phase = "replay"
    /\ replicas[i].started /\ ~replicas[i].ex.done
    /\ ExecutedOnReplica(i, execute(p, TRUE, now, replicas[i].cur, now, TRUE))
    /\ UNCHANGED <<tree, last_seq, log, now, phase, out, steps, settings, integration>>

NextReplay ==
    \/ steps < MaxReplaySteps /\ Next
    \/ \E i \in Replicas, own \in BOOLEAN : StartReplica(i, own)
    \/ \E i \in Replicas, p \in ReplicaParams : ExecuteReplica(i, p)

SpecReplay == Init /\ [][NextReplay]_vars

\* the runs of a tenant that holds two users: the source is started over a log that a
\* server shares between them, and strategies arrive from either of them
OtherUser == "bob@example.org"

SharedLog ==
    << Strategy(1, 0, ADMIN_USER, Params("CreateUser", Username, "", Fullname, 0, "")),
       Strategy(2, 0, ADMIN_USER, Params("CreateUser", OtherUser, "", "Other User", 0, "")),
       Strategy(3, 0, Username, Params("CreateBacklog", "b1", "", "First", 0, "")),
       Strategy(4, 0, OtherUser, Params("CreateBacklog", "b1", "", "First", 0, "")),
       Strategy(5, 0, OtherUser, Params("CreateWorkitem", "w1", "b1", "First", 0, "")),
       Strategy(6, 0, Username, Params("CreateWorkitem", "w1", "b1", "First", 0, "")) >>

\* the tenant of the two users, before and after the second user got a work item
ActorFixtures ==
    { [src |-> start([EmptySource EXCEPT !.log = SubSeq(SharedLog, 1, n)], 0).src,
       now |-> 0, phase |-> "live"] : n \in {4, 5, 6} }

InitActors ==
    \E st \in ActorFixtures :
        /\ tree = st.src.t
        /\ last_seq = st.src.last_seq
        /\ log = st.src.log
        /\ now = st.now
        /\ phase = st.phase
        /\ replicas = [r \in Replicas |-> NoReplica]
        /\ out = [op |-> "init", s |-> NoStrategy, persist |-> FALSE, err |-> "",
                  who |-> Nobody, ev |-> <<>>, synth |-> <<>>, eps |-> <<>>,
                  pre |-> st.src, at |-> st.now, before |-> NoCall, mute |-> FALSE,
                  delivered |-> <<>>]
        /\ steps = 0
        /\ settings = st.src.settings
        /\ IntegrationConstructed

\* the backlog strategies
BacklogParams ==
         { Params("CreateBacklog", b, "", "First", 0, "") : b \in BacklogUids }
    \cup { Params("RenameBacklog", b, "", "Renamed", 0, "") : b \in BacklogUids }
    \cup { Params("DeleteBacklog", b, "", "", 0, "") : b \in BacklogUids }

\* source.execute_prepared_strategy(strategy): a strategy that carries the identity of
\* the user it came from
ExecutePreparedAs(actor, p) ==
    /\ phase = "live"
    /\ steps < MaxSteps
    /\ Commit("prepared", FALSE,
              execute_prepared_strategy(Strategy(last_seq + 1, now, actor, p), Source, now, TRUE)
              @@ [s |-> Strategy(last_seq + 1, now, actor, p)], FALSE)
    /\ UNCHANGED <<now, phase, replicas>>

NextActors ==
    \/ \E p \in BacklogParams, ok \in BOOLEAN : Execute(p, ok)
    \/ \E actor \in {Username, OtherUser}, p \in BacklogParams : ExecutePreparedAs(actor, p)

SpecActors == InitActors /\ [][NextActors]_vars

\* the runs of the integration executor: the setting Integration.callbacks changes and
\* events are emitted
Configurations ==
    { text \in UNION { [1..n -> [key : IntegrationEvents, value : Commands]] : n \in 0..2 } :
        \A i, j \in 1..Len(text) : text[i].key = text[j].key => i = j }

\* the new_values of an AfterSettingsChanged: with Integration.callbacks or without
NewValues == [has : BOOLEAN, text : Configurations]

InitIntegration ==
    /\ Init
    /\ phase = "new" /\ settings = DefaultSettings

\* IntegrationExecutor._on_setting_changed(new_values)
_on_setting_changed(new_values) ==
    /\ changes < MaxChanges
    /\ changes' = changes + 1
    /\ IF new_values.has
       THEN /\ \E event \in BoundEvents(subscribed, json_loads(new_values.text)) :
                 /\ subscribed' = _sync_subscriptions(subscribed, connections,
                                      json_loads(new_values.text), event).subscribed
                 /\ connections' = _sync_subscriptions(subscribed, connections,
                                      json_loads(new_values.text), event).connections
            /\ callbacks' = new_values.text
       ELSE UNCHANGED <<subscribed, connections, callbacks>>
    /\ UNCHANGED <<tree, last_seq, log, now, phase, replicas, out, steps, settings, fired>>

\* an emitter emits an event: the callbacks subscribed to it run
Emit(event) ==
    /\ fired' = [event |-> event, ran |-> RanFor(subscribed, connections, event),
                 conf |-> json_loads(callbacks)]
    /\ UNCHANGED <<tree, last_seq, log, now, phase, replicas, out, steps, settings,
                   subscribed, connections, callbacks, changes>>

NextIntegration ==
    \/ \E new_values \in NewValues : _on_setting_changed(new_values)
    \/ \E event \in IntegrationEvents : Emit(event)

SpecIntegration == InitIntegration /\ [][NextIntegration]_vars

\* ------------------------------------------------------------ properties
SequencingFailure == _sequence_error(0, 0)
DoubleAutoSeal == "There is another running pomodoro"

\* the execute_prepared_strategy calls of the last handler, and its outermost one
CallsOf == { out.eps[i] : i \in 1..Len(out.eps) }
TopCall == out.eps[Len(out.eps)]

\* the last handler was an execute() whose strategy raised
StrategyRaised == out.op = "execute" /\ out.err \notin {"", "IOError"}

\* C1: the strategies in the log carry sequence numbers 1 apart in append order, and
\* _last_seq is the sequence of the last strategy appended
C1_SequenceMonotonicity ==
    phase # "new" =>
        /\ \A i \in 1..(Len(log) - 1) : log[i + 1].seq = log[i].seq + 1
        /\ last_seq = log[Len(log)].seq

\* C2, as claimed: a prepared strategy whose sequence is not _last_seq + 1 raises the
\* sequencing failure and leaves the tree alone
C2_PreparedOutOfSequenceRaises ==
    (out.op = "prepared" /\ out.s.seq # out.pre.last_seq + 1) =>
        /\ out.err = SequencingFailure
        /\ tree = out.pre.t

\* C2, amended: execute_prepared_strategy never raises the sequencing failure and runs
\* strategy.execute on what it is handed whatever its sequence; the failure is raised by
\* the replay of start(), which ends without an exception only on a log with no gap, and
\* which does not execute the entry it raises on
C2_SequenceCheckedOnReplayOnly ==
    /\ out.op = "prepared" =>
        /\ out.err # SequencingFailure
        /\ out.eps # <<>>
        /\ TopCall.seq = out.s.seq /\ TopCall.cls = out.s.cls /\ TopCall.calls >= 1
    /\ \A i \in Replicas :
        /\ (replicas[i].started /\ replicas[i].err = "") =>
              /\ \A k \in 1..(Len(log) - 1) : log[k + 1].seq = log[k].seq + 1
              /\ replicas[i].last_seq = log[Len(log)].seq
        /\ (replicas[i].started /\ replicas[i].err = SequencingFailure) =>
              /\ replicas[i].s.seq # replicas[i].last_seq + 1
              /\ \A k \in 1..Len(replicas[i].eps) : replicas[i].eps[k].seq # replicas[i].s.seq

C2_Witness ==
    /\ out.op = "prepared" /\ out.s.seq = out.pre.last_seq + 2
    /\ out.err = "" /\ tree # out.pre.t
    /\ \E i \in Replicas : replicas[i].started /\ replicas[i].err = SequencingFailure

\* C3: when the strategy raises inside execute(), nothing is appended and _last_seq stays,
\* so the next successful execute() carries the sequence number the failed one had
C3_FailedExecuteLeavesNoTrace ==
    /\ StrategyRaised =>
        /\ log = out.pre.log
        /\ last_seq = out.pre.last_seq
        /\ out.s.seq = last_seq + 1
    /\ ( /\ out.op = "execute" /\ out.err = ""
         /\ out.before.op = "execute" /\ out.before.err \notin {"", "IOError"} ) =>
        /\ out.s.seq = out.before.seq
        /\ log = Append(out.pre.log, out.s)

C3_Witness ==
    /\ out.op = "execute" /\ out.err = ""
    /\ out.before.op = "execute" /\ out.before.err \notin {"", "IOError"}
    /\ out.s.seq = out.before.seq
    /\ log[Len(log)] = out.s

\* C4: when _append raises during execute(persist = True), _last_seq has the value it
\* had before the call
C4_DurabilityPrecedesSequence ==
    (out.op = "execute" /\ out.persist /\ out.err = "IOError") => last_seq = out.pre.last_seq

\* C5: at most one Pomodoro of the whole tenant tree is working or resting
C5_SingleRunningTimer == Cardinality(RunningPomodoros(tree)) <= 1

C5_Witness ==
    /\ out.op = "execute" /\ out.s.cls = "StartWork" /\ out.err = ""
    /\ out.synth # <<>>
    /\ Cardinality(RunningPomodoros(out.pre.t)) = 1
    /\ Cardinality(RunningPomodoros(tree)) = 1
    /\ RunningPomodoros(tree) # RunningPomodoros(out.pre.t)

C7_DoubleAutoSealIsFatal ==
    ( /\ out.op \in {"execute", "prepared"}
      /\ out.eps # <<>>
      /\ TopCall.second = "auto-seal" ) =>
        /\ out.err = DoubleAutoSeal
        /\ \E pos \in WorkitemPositions(tree) :
              /\ WorkitemAt(tree, pos).oid = out.who.oid
              /\ WorkitemAt(tree, pos).name = out.who.name
              /\ has_running_pomodoro(WorkitemAt(tree, pos))
        /\ log = out.pre.log
        /\ last_seq = out.pre.last_seq

C7_Witness ==
    /\ out.op = "execute" /\ out.s.cls = "StartWork"
    /\ out.eps # <<>> /\ TopCall.second = "auto-seal"
    /\ out.err = DoubleAutoSeal
    /\ out.who # Nobody

\* C8, as claimed: two fresh sources that each start with no history (their own init
\* strategy) and are fed the same entries end with identical trees
C8_ReplayFromOwnStart ==
    \A i, j \in Replicas :
        ( /\ replicas[i].started /\ replicas[j].started
          /\ replicas[i].own /\ replicas[j].own
          /\ replicas[i].err = "" /\ replicas[j].err = "" ) =>
            replicas[i].t = replicas[j].t

\* C8, amended: two fresh sources that replay the same stored log, its init strategy
\* included, end alike whenever each is started: the same tree (entities, names, states,
\* last-modified timestamps), the same _last_seq, the same exception if any
C8_ReplayOfStoredLog ==
    \A i, j \in Replicas :
        ( /\ replicas[i].started /\ replicas[j].started
          /\ ~replicas[i].own /\ ~replicas[j].own ) =>
            /\ replicas[i].t = replicas[j].t
            /\ replicas[i].last_seq = replicas[j].last_seq
            /\ replicas[i].err = replicas[j].err

C8_Witness ==
    /\ replicas[1].started /\ replicas[2].started
    /\ ~replicas[1].own /\ ~replicas[2].own
    /\ replicas[1].at # replicas[2].at
    /\ replicas[1].err = ""
    /\ \E k \in 1..Len(replicas[1].eps) : replicas[1].eps[k].calls = 2
    /\ replicas[1].t = replicas[2].t

\* the last handler was a successful execute() of a DeleteBacklog / DeleteWorkitem
DeletedBacklog == out.op = "execute" /\ out.s.cls = "DeleteBacklog" /\ out.err = ""
DeletedWorkitem == out.op = "execute" /\ out.s.cls = "DeleteWorkitem" /\ out.err = ""

\* the objects a sequence of work items holds, in order
OidsOf(items) == [i \in 1..Len(items) |-> items[i].oid]

\* the work items the deleted backlog held before the call
HeldBefore ==
    out.pre.t.users[LocateBacklog(out.pre.t, out.s.user, out.s.uid).ui]
             .backlogs[LocateBacklog(out.pre.t, out.s.user, out.s.uid).bi].items

\* C9: after a successful DeleteBacklog the backlog is absent from its user and none of the
\* work items it held is reachable from the tenant; after a successful DeleteWorkitem the
\* work item is absent from its backlog and the backlog's other work items remain, in order
C9_CascadeDeletion ==
    /\ DeletedBacklog =>
        /\ LocateBacklog(tree, out.s.user, out.s.uid).bi = 0
        /\ \A i \in 1..Len(HeldBefore) : HeldBefore[i].oid \notin ReachableOids(tree)
    /\ DeletedWorkitem =>
        LET at == LocateWorkitem(out.pre.t, out.s.user, out.s.uid)
        IN /\ WorkitemOf(out.pre.t, at).oid \notin ReachableOids(tree)
           /\ OidsOf(tree.users[at.ui].backlogs[at.bi].items) =
                 OidsOf(RemoveAt(out.pre.t.users[at.ui].backlogs[at.bi].items, at.wi))

C9_Witness ==
    /\ DeletedBacklog
    /\ Len(HeldBefore) = 2
    /\ \E i \in 1..Len(HeldBefore) : has_running_pomodoro(HeldBefore[i])
    /\ LocateBacklog(tree, out.s.user, out.s.uid).bi = 0

\* C10: a successful execute(DeleteBacklog) appends exactly one strategy, the DeleteBacklog
\* itself, and advances _last_seq by exactly 1, however many sub-strategies it ran
C10_CascadeIsOneEntry ==
    DeletedBacklog =>
        /\ log = Append(out.pre.log, out.s)
        /\ last_seq = out.pre.last_seq + 1

C10_Witness ==
    /\ DeletedBacklog
    /\ Cardinality({ i \in 1..Len(out.ev) : out.ev[i] = "BeforeWorkitemDelete" }) = 2
    /\ \E i \in 1..Len(out.ev) : out.ev[i] = "BeforePomodoroComplete"
    /\ Len(log) = Len(out.pre.log) + 1

\* the last handler ran a strategy handed in by a caller (execute or execute_prepared_strategy)
Ran(cls) == out.op \in {"execute", "prepared"} /\ out.s.cls = cls

\* the events the last handler emitted
Emitted == { out.ev[i] : i \in 1..Len(out.ev) }

\* the last handler was a create whose uid was present in its keyspace before the call: the
\* backlogs of the acting user for a CreateBacklog, the work items of the target backlog
\* for a CreateWorkitem
CreatedPresentBacklog ==
    /\ Ran("CreateBacklog")
    /\ LocateBacklog(out.pre.t, out.s.user, out.s.uid).bi # 0
CreatedPresentWorkitem ==
    /\ Ran("CreateWorkitem")
    /\ LocateBacklog(out.pre.t, out.s.user, out.s.buid).bi # 0
    /\ IndexOf(out.pre.t.users[LocateBacklog(out.pre.t, out.s.user, out.s.buid).ui]
                  .backlogs[LocateBacklog(out.pre.t, out.s.user, out.s.buid).bi].items,
               out.s.uid) # 0

\* C11: a CreateBacklog / CreateWorkitem whose uid is already present in the target keyspace
\* raises "already exists" before any Before...Create event, and leaves the tree (the
\* existing entity's name and children included), the log and _last_seq as they were
C11_DuplicateCreateRaises ==
    /\ CreatedPresentBacklog => out.err = "Backlog already exists"
    /\ CreatedPresentWorkitem => out.err = "Workitem already exists"
    /\ (CreatedPresentBacklog \/ CreatedPresentWorkitem) =>
        /\ Emitted \cap {"BeforeBacklogCreate", "AfterBacklogCreate",
                         "BeforeWorkitemCreate", "AfterWorkitemCreate"} = {}
        /\ tree = out.pre.t
        /\ log = out.pre.log
        /\ last_seq = out.pre.last_seq

C11_Witness ==
    /\ CreatedPresentBacklog /\ out.op = "execute"
    /\ out.err = "Backlog already exists"
    /\ \E u \in 1..Len(tree.users) : \E b \in 1..Len(tree.users[u].backlogs) :
          /\ tree.users[u].backlogs[b].uid = out.s.uid
          /\ tree.users[u].backlogs[b].name # out.s.name
          /\ Len(tree.users[u].backlogs[b].items) = 2

\* the last handler was a rename or delete whose target did not resolve under the acting
\* user before the call
MissedBacklog ==
    /\ Ran("RenameBacklog") \/ Ran("DeleteBacklog")
    /\ LocateBacklog(out.pre.t, out.s.user, out.s.uid).bi = 0
MissedWorkitem ==
    /\ Ran("RenameWorkitem") \/ Ran("DeleteWorkitem")
    /\ LocateWorkitem(out.pre.t, out.s.user, out.s.uid).bi = 0

\* C12: a rename or delete of a backlog or work item whose uid does not resolve under the
\* acting user raises "not found", emits no Before/After rename or delete event and leaves
\* the tree, the log and _last_seq as they were
C12_MissingTargetRaises ==
    /\ MissedBacklog => out.err = "Backlog not found"
    /\ MissedWorkitem => out.err = "Workitem not found"
    /\ (MissedBacklog \/ MissedWorkitem) =>
        /\ Emitted \cap {"BeforeBacklogRename", "AfterBacklogRename",
                         "BeforeBacklogDelete", "AfterBacklogDelete",
                         "BeforeWorkitemRename", "AfterWorkitemRename",
                         "BeforeWorkitemDelete", "AfterWorkitemDelete"} = {}
        /\ tree = out.pre.t
        /\ log = out.pre.log
        /\ last_seq = out.pre.last_seq

C12_Witness ==
    /\ MissedBacklog /\ out.op = "execute" /\ out.s.cls = "DeleteBacklog"
    /\ out.err = "Backlog not found"
    /\ WorkitemPositions(tree) # {}
    /\ Emitted = {"BeforeMessageProcessed"}

\* where the work item the last strategy targets was before the call, and that work item
\* before and after the call (no strategy that raises moves a work item)
TargetAt == LocateWorkitem(out.pre.t, out.s.user, out.s.uid)
TargetBefore == WorkitemOf(out.pre.t, TargetAt)
TargetAfter == WorkitemOf(tree, TargetAt)

\* the last handler ran one of the strategies a sealed work item refuses, against a work
\* item that was sealed before the call
MutatedSealed ==
    /\ \E cls \in {"RenameWorkitem", "AddPomodoro", "RemovePomodoro", "StartWork",
                    "CompleteWorkitem"} : Ran(cls)
    /\ TargetAt.bi # 0
    /\ is_sealed(TargetBefore)

\* C13: a RenameWorkitem, AddPomodoro, RemovePomodoro, StartWork or CompleteWorkitem that
\* targets a sealed work item raises, and the work item keeps its name, its Pomodoros
\* and its state; nothing is appended
C13_SealedRefusesMutation ==
    MutatedSealed =>
        /\ out.err # ""
        /\ TargetAfter.name = TargetBefore.name
        /\ TargetAfter.pomodoros = TargetBefore.pomodoros
        /\ TargetAfter.state = TargetBefore.state
        /\ log = out.pre.log

C13_Witness ==
    /\ MutatedSealed /\ Ran("RenameWorkitem")
    /\ out.err = "Workitem is sealed"
    /\ TargetAfter.name # out.s.name
    /\ TargetAfter.pomodoros # <<>>
    /\ out.before.op = "execute" /\ out.before.err = "Workitem is not startable"

\* the last handler ran a DeleteWorkitem against a work item that was sealed before the call
DeletedSealed ==
    /\ Ran("DeleteWorkitem")
    /\ TargetAt.bi # 0
    /\ is_sealed(TargetBefore)

\* C14: a DeleteWorkitem of a sealed work item does not raise (only the append after it
\* can), and afterwards the uid is no longer in the backlog and the work item is not
\* reachable from the tenant
C14_SealedCanBeDeleted ==
    DeletedSealed =>
        /\ out.err \in {"", "IOError"}
        /\ IndexOf(tree.users[TargetAt.ui].backlogs[TargetAt.bi].items, out.s.uid) = 0
        /\ TargetBefore.oid \notin ReachableOids(tree)

C14_Witness ==
    /\ DeletedSealed /\ out.op = "execute" /\ out.err = ""
    /\ out.pre.log[Len(out.pre.log)].cls = "CompleteWorkitem"
    /\ out.pre.log[Len(out.pre.log)].uid = out.s.uid
    /\ TargetBefore.pomodoros # <<>>
    /\ IndexOf(tree.users[TargetAt.ui].backlogs[TargetAt.bi].items, out.s.uid) = 0
    /\ Len(tree.users[TargetAt.ui].backlogs[TargetAt.bi].items) = 1

\* the last handler ran a CompleteWorkitem to 'finished' against a work item that was not
\* sealed, and the strategy did not raise
CompletedFinished ==
    /\ Ran("CompleteWorkitem") /\ out.s.target = "finished"
    /\ TargetAt.bi # 0
    /\ ~is_sealed(TargetBefore)
    /\ out.err \in {"", "IOError"}

\* C15: after a successful CompleteWorkitem to 'finished' of a work item that was not sealed,
\* the work item is still in its backlog, is sealed, not startable, not running and has
\* no running Pomodoro; the Pomodoro that was running on it is 'canceled' and its other
\* Pomodoros are as they were
C15_CompleteSealsAndVoids ==
    CompletedFinished =>
        /\ IndexOf(tree.users[TargetAt.ui].backlogs[TargetAt.bi].items, out.s.uid) = TargetAt.wi
        /\ TargetAfter.oid = TargetBefore.oid
        /\ TargetAfter.state = "finished"
        /\ is_sealed(TargetAfter)
        /\ ~is_startable(TargetAfter)
        /\ ~workitem_is_running(TargetAfter)
        /\ ~has_running_pomodoro(TargetAfter)
        /\ Len(TargetAfter.pomodoros) = Len(TargetBefore.pomodoros)
        /\ \A i \in 1..Len(TargetBefore.pomodoros) :
              IF is_running(TargetBefore.pomodoros[i])
              THEN TargetAfter.pomodoros[i].state = "canceled"
              ELSE TargetAfter.pomodoros[i] = TargetBefore.pomodoros[i]

C15_Witness ==
    /\ CompletedFinished /\ out.op = "execute" /\ out.err = ""
    /\ has_running_pomodoro(TargetBefore)
    /\ Len(TargetBefore.pomodoros) = 2
    /\ \E i \in 1..2 : pomodoro_is_startable(TargetAfter.pomodoros[i])
    /\ \E i \in 1..2 : TargetAfter.pomodoros[i].state = "canceled"
    /\ out.ev = << "BeforeMessageProcessed", "BeforeWorkitemComplete", "BeforeMessageProcessed",
                   "BeforePomodoroComplete", "AfterPomodoroComplete", "AfterMessageProcessed",
                   "AfterWorkitemComplete", "AfterMessageProcessed" >>

\* the last handler ran a CompleteWorkitem whose target state is neither 'finished' nor
\* 'canceled', against a work item that resolves
CompletedToInvalid ==
    /\ Ran("CompleteWorkitem") /\ out.s.target \notin {"finished", "canceled"}
    /\ TargetAt.bi # 0

\* C16: a CompleteWorkitem with a target state other than 'finished' or 'canceled' raises
\* a validation failure before any event of its own; the work item is as it was (unsealed
\* if it was, its running Pomodoro still running) and so is the rest of the tree
C16_InvalidTargetStateRaises ==
    CompletedToInvalid =>
        /\ out.err = "Invalid target state"
        /\ "BeforeWorkitemComplete" \notin Emitted
        /\ TargetAfter = TargetBefore
        /\ is_sealed(TargetAfter) <=> is_sealed(TargetBefore)
        /\ tree = out.pre.t
        /\ log = out.pre.log

C16_Witness ==
    /\ CompletedToInvalid /\ out.op = "execute"
    /\ out.err = "Invalid target state"
    /\ ~is_sealed(TargetAfter)
    /\ has_running_pomodoro(TargetAfter)
    /\ workitem_is_running(TargetAfter)

\* the work item a successful CreateWorkitem appended to its backlog
Created ==
    tree.users[LocateBacklog(tree, out.s.user, out.s.buid).ui]
        .backlogs[LocateBacklog(tree, out.s.user, out.s.buid).bi]
        .items[Len(tree.users[LocateBacklog(tree, out.s.user, out.s.buid).ui]
                       .backlogs[LocateBacklog(tree, out.s.user, out.s.buid).bi].items)]

\* C17: in every state a work item is startable exactly when its state is neither
\* 'finished' nor 'canceled' and one of its Pomodoros is 'new'; a StartWork succeeds only
\* on a startable work item; a work item just created is planned, has no Pomodoro, is not
\* running, not sealed and not startable; after a successful AddPomodoro the work item is
\* startable
C17_StartableIffUnsealedWithNew ==
    /\ \A pos \in WorkitemPositions(tree) :
          is_startable(WorkitemAt(tree, pos)) <=>
              /\ WorkitemAt(tree, pos).state \notin {"finished", "canceled"}
              /\ \E i \in 1..Len(WorkitemAt(tree, pos).pomodoros) :
                    WorkitemAt(tree, pos).pomodoros[i].state = "new"
    /\ (Ran("StartWork") /\ out.err \in {"", "IOError"}) =>
          /\ is_startable(TargetBefore)
          /\ has_running_pomodoro(TargetAfter)
    /\ (Ran("CreateWorkitem") /\ out.err \in {"", "IOError"}) =>
          /\ Created.uid = out.s.uid
          /\ is_planned(Created)
          /\ Created.pomodoros = <<>>
          /\ ~workitem_is_running(Created)
          /\ ~has_running_pomodoro(Created)
          /\ ~is_sealed(Created)
          /\ ~is_startable(Created)
    /\ (Ran("AddPomodoro") /\ out.err \in {"", "IOError"}) =>
          /\ is_startable(TargetAfter)
          /\ Len(TargetAfter.pomodoros) = Len(TargetBefore.pomodoros) + out.s.num

C17_Witness ==
    /\ Ran("AddPomodoro") /\ out.op = "execute" /\ out.err = ""
    /\ out.pre.log[Len(out.pre.log)].cls = "CreateWorkitem"
    /\ out.pre.log[Len(out.pre.log)].uid = out.s.uid
    /\ is_planned(TargetBefore) /\ TargetBefore.pomodoros = <<>>
    /\ ~is_startable(TargetBefore)
    /\ is_startable(TargetAfter)
    /\ \E pos \in WorkitemPositions(tree) :
          /\ is_sealed(WorkitemAt(tree, pos))
          /\ \E i \in 1..Len(WorkitemAt(tree, pos).pomodoros) :
                WorkitemAt(tree, pos).pomodoros[i].state = "new"

\* the last handler was a reconciliation on its own that did not raise
Reconciliation == out.op = "auto_seal" /\ out.err = ""

\* the Pomodoro at a position <<user, backlog, workitem, pomodoro>> of a tree
PomodoroAt(t, pos) == WorkitemAt(t, pos).pomodoros[pos[4]]

\* the strategies the last handler's reconciler synthesized for work items of this uid, as
\* <<class, timestamp>>, in order
SynthesizedFor(uid) ==
    [i \in 1..Len(SelectSeq(out.synth, LAMBDA e : e.s.uid = uid)) |->
        << SelectSeq(out.synth, LAMBDA e : e.s.uid = uid)[i].s.cls,
           SelectSeq(out.synth, LAMBDA e : e.s.uid = uid)[i].s.when >>]

\* the running Pomodoros, before the last handler, that were working with their planned
\* end of work and planned end of rest both in the past by more than the grace interval
Overdue ==
    { pos \in RunningPomodoros(out.pre.t) :
        /\ is_working(PomodoroAt(out.pre.t, pos))
        /\ planned_end_of_work(PomodoroAt(out.pre.t, pos)) + AutoSealAfter < now
        /\ planned_end_of_rest(PomodoroAt(out.pre.t, pos)) + AutoSealAfter < now }

\* the reconciler of the last handler synthesized a FinishPomodoroInternal for a Pomodoro
\* that was working when it looked at it (a handler runs the reconciler at most once, and
\* the reconciler looks at each Pomodoro once)
FinishedWhileWorking ==
    /\ out.op \in {"auto_seal", "execute", "prepared"}
    /\ \E i \in 1..Len(out.synth) :
          /\ out.synth[i].s.cls = "FinishPomodoroInternal"
          /\ \E pos \in RunningPomodoros(out.pre.t) :
                /\ WorkitemAt(out.pre.t, pos).uid = out.synth[i].s.uid
                /\ is_working(PomodoroAt(out.pre.t, pos))

\* C18: a reconciliation brings a working Pomodoro whose planned end of work and planned
\* end of rest are both past to 'finished' by synthesizing a StartRest dated at the planned
\* end of work and then a FinishPomodoroInternal dated at the planned end of rest; no
\* FinishPomodoroInternal is synthesized for a Pomodoro that is working
C18_CatchUpStartRestThenFinish ==
    /\ Reconciliation =>
          \A pos \in Overdue :
              /\ PomodoroAt(tree, pos).state = "finished"
              /\ SynthesizedFor(WorkitemAt(out.pre.t, pos).uid) =
                    << << "StartRest", planned_end_of_work(PomodoroAt(out.pre.t, pos)) >>,
                       << "FinishPomodoroInternal",
                          planned_end_of_rest(PomodoroAt(out.pre.t, pos)) >> >>
    /\ ~FinishedWhileWorking

\* the last handler is one whose reconciler, if it ran, looked at the tree as it was
\* before the call
LiveHandler == out.op \in {"auto_seal", "execute", "prepared"}

\* C19: every strategy the reconciler synthesizes is a FinishPomodoroInternal stamped
\* with the planned end of rest of a running Pomodoro of the work item it names, or a
\* StartRest stamped with the planned end of work of a working one and carrying that
\* Pomodoro's rest duration; its timestamp is earlier than the wall clock
C19_SynthesizedAreBackDated ==
    LiveHandler =>
        \A i \in 1..Len(out.synth) :
            /\ out.synth[i].s.cls \in {"FinishPomodoroInternal", "StartRest"}
            /\ out.synth[i].s.when < now
            /\ \E pos \in RunningPomodoros(out.pre.t) :
                  /\ WorkitemAt(out.pre.t, pos).uid = out.synth[i].s.uid
                  /\ \/ /\ out.synth[i].s.cls = "FinishPomodoroInternal"
                        /\ out.synth[i].s.when = planned_end_of_rest(PomodoroAt(out.pre.t, pos))
                     \/ /\ out.synth[i].s.cls = "StartRest"
                        /\ is_working(PomodoroAt(out.pre.t, pos))
                        /\ out.synth[i].s.when = planned_end_of_work(PomodoroAt(out.pre.t, pos))
                        /\ out.synth[i].s.num = PomodoroAt(out.pre.t, pos).rest_duration

C19_Witness ==
    /\ out.op = "auto_seal" /\ out.err = ""
    /\ Len(out.synth) = 1
    /\ out.synth[1].s.cls = "StartRest"
    /\ out.synth[1].s.when = 1 /\ now = 3
    /\ \E pos \in RunningPomodoros(tree) :
          /\ is_resting(PomodoroAt(tree, pos))
          /\ PomodoroAt(tree, pos).since = out.synth[1].s.when

\* every Pomodoro of a tree, as <<user, backlog, workitem, pomodoro>>
AllPomodoros(t) ==
    UNION { { <<pos[1], pos[2], pos[3], i>> : i \in 1..Len(WorkitemAt(t, pos).pomodoros) } :
            pos \in WorkitemPositions(t) }

\* the Pomodoro is running and the end of the state it is in (end of work while working,
\* end of rest while resting) is not past by more than the grace interval
WithinGrace(p) ==
    /\ is_running(p)
    /\ now <= (IF is_working(p) THEN planned_end_of_work(p) ELSE planned_end_of_rest(p))
               + AutoSealAfter

\* C20: the reconciler synthesizes a StartRest only when the wall clock exceeds the planned
\* end of work of a running Pomodoro of the work item by more than Pomodoro.auto_seal_after,
\* and a FinishPomodoroInternal only when it exceeds the planned end of rest by more than
\* that; a reconciliation leaves every Pomodoro that is new, finished or canceled, or running
\* and at or inside the grace interval, as it was, and synthesizes nothing when no running
\* Pomodoro is past the grace interval
C20_GraceInterval ==
    /\ LiveHandler =>
          \A i \in 1..Len(out.synth) :
              \E pos \in RunningPomodoros(out.pre.t) :
                  /\ WorkitemAt(out.pre.t, pos).uid = out.synth[i].s.uid
                  /\ out.synth[i].s.cls = "StartRest" =>
                        now > planned_end_of_work(PomodoroAt(out.pre.t, pos)) + AutoSealAfter
                  /\ out.synth[i].s.cls = "FinishPomodoroInternal" =>
                        now > planned_end_of_rest(PomodoroAt(out.pre.t, pos)) + AutoSealAfter
    /\ out.op = "auto_seal" =>
          /\ \A pos \in AllPomodoros(out.pre.t) :
                (~is_running(PomodoroAt(out.pre.t, pos)) \/ WithinGrace(PomodoroAt(out.pre.t, pos)))
                    => PomodoroAt(tree, pos) = PomodoroAt(out.pre.t, pos)
          /\ (\A pos \in RunningPomodoros(out.pre.t) : WithinGrace(PomodoroAt(out.pre.t, pos)))
                => (out.synth = <<>> /\ tree = out.pre.t)

C20_Witness ==
    /\ out.op = "auto_seal"
    /\ \E pos \in RunningPomodoros(out.pre.t) :
          /\ is_working(PomodoroAt(out.pre.t, pos))
          /\ now = planned_end_of_work(PomodoroAt(out.pre.t, pos)) + AutoSealAfter
    /\ \E pos \in AllPomodoros(out.pre.t) : PomodoroAt(out.pre.t, pos).state = "new"
    /\ out.synth = <<>>
    /\ tree = out.pre.t

\* what one more auto_seal() would do now
Again == auto_seal(Source, now, TRUE)
NoOp(r) == r.synth = <<>> /\ r.eps = <<>> /\ r.ev = <<>> /\ r.err = "" /\ r.src = Source

Logged == { log[i] : i \in 1..Len(log) }

DomainEvent(e) ==
    e \notin {"BeforeMessageProcessed", "AfterMessageProcessed",
              "SourceMessagesRequested", "SourceMessagesProcessed"}

\* how many BeforeMessageProcessed are open before the i-th event of the last handler
Depth(i) ==
    Cardinality({ j \in 1..(i - 1) : out.ev[j] = "BeforeMessageProcessed" })
    - Cardinality({ j \in 1..(i - 1) : out.ev[j] = "AfterMessageProcessed" })

\* C23: every event a strategy emits comes after a BeforeMessageProcessed whose
\* AfterMessageProcessed has not come yet, the events of the retry after an 'auto-seal'
\* sentinel included, and a handler that returns has closed every bracket it opened
C23_EventsAreBracketed ==
    /\ \A i \in 1..Len(out.ev) : DomainEvent(out.ev[i]) => Depth(i) >= 1
    /\ out.err = "" => Depth(Len(out.ev) + 1) = 0

\* the strategies that cascade to no other strategy, and the noun and verb of their events
NonCascading ==
    {"CreateBacklog", "RenameBacklog", "CreateWorkitem", "RenameWorkitem", "AddPomodoro",
     "RemovePomodoro"}
NounVerb(cls) ==
    CASE cls = "CreateBacklog" -> "BacklogCreate"
      [] cls = "RenameBacklog" -> "BacklogRename"
      [] cls = "CreateWorkitem" -> "WorkitemCreate"
      [] cls = "RenameWorkitem" -> "WorkitemRename"
      [] cls = "AddPomodoro" -> "PomodoroAdd"
      [] cls = "RemovePomodoro" -> "PomodoroRemove"

\* C24: a successful execute() of a strategy that does not cascade delivers exactly four
\* events, in this order: BeforeMessageProcessed, Before<Noun><Verb>, After<Noun><Verb>,
\* AfterMessageProcessed
C24_FourEventsInOrder ==
    (out.op = "execute" /\ out.err = "" /\ out.s.cls \in NonCascading) =>
        out.ev = << "BeforeMessageProcessed", "Before" \o NounVerb(out.s.cls),
                    "After" \o NounVerb(out.s.cls), "AfterMessageProcessed" >>

C24_Witness ==
    /\ out.op = "execute" /\ out.err = "" /\ out.s.cls = "RenameWorkitem"
    /\ out.ev = << "BeforeMessageProcessed", "BeforeWorkitemRename", "AfterWorkitemRename",
                   "AfterMessageProcessed" >>
    /\ TargetAfter.name = out.s.name /\ TargetBefore.name # out.s.name
    /\ out.before.op = "execute" /\ out.before.err = "" /\ out.pre.log[Len(out.pre.log)].cls = "CreateWorkitem"

\* the last handler was a successful execute() of a DeleteWorkitem or a CompleteWorkitem
SealedOrDeleted ==
    /\ out.op = "execute" /\ out.err = ""
    /\ out.s.cls \in {"DeleteWorkitem", "CompleteWorkitem"}

\* C25: a DeleteWorkitem or CompleteWorkitem of a work item with a running Pomodoro
\* delivers exactly eight events, the void of the Pomodoro bracketed inside the outer pair:
\* BeforeMessageProcessed, BeforeWorkitem<Verb>, BeforeMessageProcessed,
\* BeforePomodoroComplete, AfterPomodoroComplete, AfterMessageProcessed,
\* AfterWorkitem<Verb>, AfterMessageProcessed; with no running Pomodoro it delivers the
\* outer four only
C25_NestedVoidIsBracketed ==
    SealedOrDeleted =>
        out.ev = IF has_running_pomodoro(TargetBefore)
                 THEN << "BeforeMessageProcessed",
                         IF out.s.cls = "DeleteWorkitem" THEN "BeforeWorkitemDelete"
                                                         ELSE "BeforeWorkitemComplete",
                         "BeforeMessageProcessed", "BeforePomodoroComplete",
                         "AfterPomodoroComplete", "AfterMessageProcessed",
                         IF out.s.cls = "DeleteWorkitem" THEN "AfterWorkitemDelete"
                                                         ELSE "AfterWorkitemComplete",
                         "AfterMessageProcessed" >>
                 ELSE << "BeforeMessageProcessed",
                         IF out.s.cls = "DeleteWorkitem" THEN "BeforeWorkitemDelete"
                                                         ELSE "BeforeWorkitemComplete",
                         IF out.s.cls = "DeleteWorkitem" THEN "AfterWorkitemDelete"
                                                         ELSE "AfterWorkitemComplete",
                         "AfterMessageProcessed" >>

C25_Witness ==
    /\ SealedOrDeleted /\ out.s.cls = "DeleteWorkitem"
    /\ Len(TargetBefore.pomodoros) = 2
    /\ has_running_pomodoro(TargetBefore)
    /\ \E i \in 1..2 : pomodoro_is_startable(TargetBefore.pomodoros[i])
    /\ Len(out.ev) = 8
    /\ TargetBefore.oid \notin ReachableOids(tree)

\* C26: whenever execute() raises out of the strategy or the reconciler (a persistence
\* failure apart), the tree is as it was before the call, also when the exception is the
\* second 'auto-seal' sentinel after the reconciler has run
C26_FailedExecuteLeavesTree ==
    StrategyRaised => tree = out.pre.t

\* the execute() calls entered while the last handler's own execute() or
\* execute_prepared_strategy call had not returned, and the execute_prepared_strategy
\* calls they made
NestedExecutes == IF out.op \in {"execute", "prepared"} THEN out.synth ELSE <<>>
NestedCalls == SubSeq(out.eps, 1, Len(out.eps) - 1)

\* C27, as claimed: execute() is never entered while an execute() or an
\* execute_prepared_strategy call on the same source has not returned
C27_NeverReentered ==
    NestedExecutes = <<>>

\* C27, amended: execute() is entered inside a call that has not returned only by the
\* reconciler which execute_prepared_strategy runs after an 'auto-seal' sentinel; every such
\* nested call is a non-persistent FinishPomodoroInternal or StartRest, makes exactly one
\* execute_prepared_strategy call which invokes its strategy once and never runs the
\* reconciler itself, so that at most two calls are in flight, and a call that got no
\* sentinel contains no nested call at all
C27_OnlyReconcilerReenters ==
    out.op \in {"execute", "prepared"} =>
        /\ Len(out.eps) = Len(out.synth) + 1
        /\ out.synth # <<>> => (TopCall.first = "auto-seal" /\ TopCall.seals = 1)
        /\ TopCall.seals = 0 => out.synth = <<>>
        /\ \A i \in 1..Len(out.synth) :
              /\ ~out.synth[i].persist
              /\ out.synth[i].s.cls \in {"FinishPomodoroInternal", "StartRest"}
              /\ NestedCalls[i].cls = out.synth[i].s.cls
              /\ NestedCalls[i].seals = 0 /\ NestedCalls[i].calls = 1

C27_Witness ==
    /\ out.op = "execute" /\ out.s.cls = "StartWork"
    /\ Len(NestedExecutes) = 1 /\ NestedExecutes[1].s.cls = "StartRest"
    /\ Len(out.eps) = 2 /\ TopCall.seals = 1 /\ TopCall.calls = 2
    /\ NestedCalls[1].seals = 0
    /\ tree # out.pre.t

\* a source whose start() raised the sequencing failure and on which execute() was called
\* afterwards
ExecutedAfterSequencingFailure(i) ==
    replicas[i].started /\ replicas[i].err = SequencingFailure /\ replicas[i].ex.done

\* C28: once start() has raised the sequencing failure, a later execute() on that source
\* is rejected: it raises, and the tree, the log and _last_seq stay as the failed replay
\* left them
C28_SequencingFailureIsFatal ==
    \A i \in Replicas :
        ExecutedAfterSequencingFailure(i) =>
            /\ replicas[i].ex.err # ""
            /\ replicas[i].cur.t = replicas[i].t
            /\ replicas[i].cur.last_seq = replicas[i].last_seq
            /\ \A k \in 1..Len(replicas[i].cur.log) : replicas[i].cur.log[k] # replicas[i].ex.s

\* the identity the settings configure, read off the two settings themselves
ConfiguredIdentity ==
    IF settings.type = "local" THEN "user@local.host" ELSE settings.username

\* the last handler was the start() of a source with no history
StartedEmpty == out.op = "start" /\ out.pre.log = <<>>

\* C29: after start() on a source with an empty log the tenant holds exactly one user, the
\* configured identity ('user@local.host' for a local source, the server account
\* otherwise) with no backlog, created by a CreateUser strategy with sequence 1 issued
\* under the admin identity, which is the only entry of the log; a CreateBacklog executed
\* right afterwards succeeds for that user and takes sequence 2
C29_StartCreatesConfiguredUser ==
    /\ StartedEmpty =>
          /\ out.err = ""
          /\ Len(tree.users) = 1
          /\ tree.users[1].uid = ConfiguredIdentity
          /\ tree.users[1].backlogs = <<>>
          /\ Len(log) = 1 /\ log[1].cls = "CreateUser" /\ log[1].seq = 1
          /\ log[1].user = ADMIN_USER /\ log[1].uid = ConfiguredIdentity
          /\ last_seq = 1
          /\ Len(out.eps) = 1 /\ out.eps[1].cls = "CreateUser" /\ out.eps[1].seq = 1
    /\ (out.op = "execute" /\ out.before.op = "start" /\ out.s.cls = "CreateBacklog"
        /\ out.persist /\ out.err # "IOError") =>
          /\ out.err = ""
          /\ out.s.user = ConfiguredIdentity /\ out.s.seq = 2
          /\ Len(tree.users) = 1 /\ tree.users[1].uid = ConfiguredIdentity
          /\ Len(tree.users[1].backlogs) = 1
          /\ tree.users[1].backlogs[1].uid = out.s.uid
          /\ log[Len(log)] = out.s

C29_Witness ==
    /\ out.op = "execute" /\ out.before.op = "start" /\ out.s.cls = "CreateBacklog"
    /\ out.err = ""
    /\ settings.type # "local" /\ settings.username # "user@local.host"
    /\ tree.users[1].uid = settings.username
    /\ Len(tree.users[1].backlogs) = 1
    /\ Len(log) = 2 /\ log[1].user = ADMIN_USER /\ log[2].user = settings.username

\* the events ev of a start() that ended with err are bracketed: SourceMessagesRequested
\* comes first and once, SourceMessagesProcessed comes last and once when start() returned
\* and not at all when it raised
Bracketed(ev, err) ==
    /\ ev # <<>> /\ ev[1] = "SourceMessagesRequested"
    /\ \A k \in 2..Len(ev) : ev[k] # "SourceMessagesRequested"
    /\ \A k \in 1..(Len(ev) - 1) : ev[k] # "SourceMessagesProcessed"
    /\ (ev[Len(ev)] = "SourceMessagesProcessed") <=> (err = "")

\* C30: every start() emits SourceMessagesRequested before the first replayed strategy and,
\* when it returns, SourceMessagesProcessed after the last one, so that the tree an
\* observer of SourceMessagesProcessed sees is the tree start() leaves; the entries are
\* replayed in their stored order, all of them when start() returns; with mute_events the
\* subscribers receive the two source events only, without it every event emitted
C30_ReplayIsBracketed ==
    /\ out.op = "start" =>
          /\ Bracketed(out.ev, out.err)
          /\ out.mute => out.delivered = SelectSeq(out.ev, LAMBDA e : ~DomainEvent(e)
                                /\ e \notin {"BeforeMessageProcessed", "AfterMessageProcessed"})
          /\ (out.mute /\ out.err = "") =>
                out.delivered = <<"SourceMessagesRequested", "SourceMessagesProcessed">>
          /\ ~out.mute => out.delivered = out.ev
          /\ Len(out.ev) > 2
    /\ \A i \in Replicas :
          replicas[i].started =>
              /\ Bracketed(replicas[i].ev, replicas[i].err)
              /\ Len(replicas[i].handed) <= Len(replicas[i].read)
              /\ replicas[i].handed = SubSeq(replicas[i].read, 1, Len(replicas[i].handed))
              /\ replicas[i].err = "" =>
                    /\ replicas[i].handed = replicas[i].read
                    /\ replicas[i].delivered =
                           <<"SourceMessagesRequested", "SourceMessagesProcessed">>
              /\ \A k \in 1..Len(replicas[i].delivered) :
                    replicas[i].delivered[k] \in SourceEvents
              /\ \E k \in 1..Len(replicas[i].ev) : DomainEvent(replicas[i].ev[k])

C30_Witness ==
    \E i \in Replicas :
          /\ replicas[i].started /\ replicas[i].err = ""
          /\ Len(replicas[i].read) >= 5 /\ replicas[i].handed = replicas[i].read
          /\ Len(replicas[i].ev) > 20
          /\ replicas[i].delivered = <<"SourceMessagesRequested", "SourceMessagesProcessed">>
          /\ \E k \in 1..Len(replicas[i].eps) : replicas[i].eps[k].seals = 1

\* the moves of the Pomodoros over the last handler: <<state before, state after>> of every
\* Pomodoro of a work item that is in the tree before and after, Pomodoros being told
\* apart by their position in the work item
PomodoroMoves ==
    UNION { UNION { { << WorkitemAt(out.pre.t, p).pomodoros[i].state,
                         WorkitemAt(tree, q).pomodoros[i].state >> :
                      i \in { j \in 1..Len(WorkitemAt(out.pre.t, p).pomodoros) :
                                 /\ j <= Len(WorkitemAt(tree, q).pomodoros)
                                 /\ WorkitemAt(out.pre.t, p).oid = WorkitemAt(tree, q).oid } } :
                    q \in WorkitemPositions(tree) } :
            p \in WorkitemPositions(out.pre.t) }

PomodoroStates == {"new", "working", "resting", "finished", "canceled"}
Unmoved == { <<x, x>> : x \in PomodoroStates }
AllowedMoves ==
    { <<"new", "working">>, <<"working", "resting">>, <<"resting", "finished">>,
      <<"new", "canceled">>, <<"working", "canceled">>, <<"resting", "canceled">> }

\* C31: over any handler a Pomodoro stays in its state or moves along new -> working ->
\* resting -> finished, or to canceled from new, working or resting; a finished or
\* canceled Pomodoro never changes, the strategies of the reconciler included
C31_PomodoroStateMachine ==
    PomodoroMoves \subseteq (Unmoved \cup AllowedMoves)

\* the moves of the work items over the last handler: <<state before, state after>> of
\* every work item that is in the tree before and after
WorkitemMoves ==
    UNION { { << WorkitemAt(out.pre.t, p).state, WorkitemAt(tree, q).state >> :
                q \in { r \in WorkitemPositions(tree) :
                           WorkitemAt(tree, r).oid = WorkitemAt(out.pre.t, p).oid } } :
            p \in WorkitemPositions(out.pre.t) }

WorkitemStates == {"planned", "running", "finished", "canceled"}
AllowedWorkitemMoves ==
         { <<x, x>> : x \in WorkitemStates }
    \cup { <<"planned", "running">> }
    \cup { <<x, y>> : x \in {"planned", "running"}, y \in {"finished", "canceled"} }

\* C32: over any handler a work item that stays in the tree keeps its state or moves
\* planned -> running, or from planned or running to sealed (finished or canceled); a
\* sealed work item therefore stays sealed as it is, and no sealed work item of the tree
\* holds a working or resting Pomodoro
C32_WorkitemLifecycleIsMonotone ==
    /\ WorkitemMoves \subseteq AllowedWorkitemMoves
    /\ \A pos \in WorkitemPositions(tree) :
          is_sealed(WorkitemAt(tree, pos)) => ~has_running_pomodoro(WorkitemAt(tree, pos))

C32_Witness ==
    /\ out.op \in {"execute", "auto_seal"} /\ out.err = "" /\ tree # out.pre.t
    /\ out.before.op = "execute" /\ out.before.err = ""
    /\ \E p \in WorkitemPositions(out.pre.t), q \in WorkitemPositions(tree) :
          /\ WorkitemAt(tree, q).oid = WorkitemAt(out.pre.t, p).oid
          /\ is_sealed(WorkitemAt(out.pre.t, p))
          /\ WorkitemAt(tree, q).state = WorkitemAt(out.pre.t, p).state
          /\ WorkitemAt(tree, q).pomodoros # <<>>
          /\ \E i \in 1..Len(WorkitemAt(tree, q).pomodoros) :
                WorkitemAt(tree, q).pomodoros[i].state = "canceled"
    /\ <<"planned", "running">> \in WorkitemMoves

\* the Pomodoros that were working or resting before the last handler with their planned
\* end of rest past by more than the grace interval when it ran
PastEndOfRest ==
    { pos \in RunningPomodoros(out.pre.t) :
        planned_end_of_rest(PomodoroAt(out.pre.t, pos)) + AutoSealAfter < out.at }

\* the strategies a pass of the reconciler at time c, after one more pass now, would
\* synthesize
LaterPass(c) == auto_seal(Again.src, c, TRUE).synth

NestedDelete(w) ==
    <<"BeforeMessageProcessed", "BeforeWorkitemDelete">>
    \o (IF has_running_pomodoro(w)
        THEN <<"BeforeMessageProcessed", "BeforePomodoroComplete", "AfterPomodoroComplete",
               "AfterMessageProcessed">>
        ELSE <<>>)
    \o <<"AfterWorkitemDelete", "AfterMessageProcessed">>

RECURSIVE NestedDeletes(_)
NestedDeletes(items) ==
    IF items = <<>> THEN <<>> ELSE NestedDelete(Head(items)) \o NestedDeletes(Tail(items))

\* the tree after the first k nested DeleteWorkitem of the last DeleteBacklog, and the
\* work items its backlog holds in that tree
AfterDeletes(k) ==
    DeleteWorkitems(out.s, out.pre.t,
                    [i \in 1..k |-> HeldBefore[i].uid], <<>>).t
HeldAfterDeletes(k) ==
    AfterDeletes(k).users[LocateBacklog(AfterDeletes(k), out.s.user, out.s.uid).ui]
                   .backlogs[LocateBacklog(AfterDeletes(k), out.s.user, out.s.uid).bi].items

\* C34: a successful DeleteBacklog emits BeforeBacklogDelete first, then the delete events
\* of each of the backlog's work items, one nested DeleteWorkitem per work item in order,
\* then AfterBacklogDelete; the backlog stays in its user's map through the nested deletes,
\* the k-th of which leaves it with its work items after the k-th, so that it holds none
\* when it is removed and when AfterBacklogDelete is emitted
C34_DeleteBacklogOrdering ==
    DeletedBacklog =>
        /\ out.ev = <<"BeforeMessageProcessed", "BeforeBacklogDelete">>
                    \o NestedDeletes(HeldBefore)
                    \o <<"AfterBacklogDelete", "AfterMessageProcessed">>
        /\ \A k \in 0..Len(HeldBefore) :
              /\ LocateBacklog(AfterDeletes(k), out.s.user, out.s.uid).bi # 0
              /\ OidsOf(HeldAfterDeletes(k)) =
                    OidsOf(SubSeq(HeldBefore, k + 1, Len(HeldBefore)))
        /\ LocateBacklog(tree, out.s.user, out.s.uid).bi = 0

\* the last handler changed _last_seq or the stored log
SequenceOrLogMoved == last_seq # out.pre.last_seq \/ log # out.pre.log

\* C35: execute_prepared_strategy leaves _last_seq and the log as they were, whether the
\* strategy succeeded, went through the auto-seal retry or raised; of the live handlers only
\* execute() with persist = True moves them
C35_PreparedLeavesSequenceAndLog ==
    /\ out.op = "prepared" => ~SequenceOrLogMoved
    /\ (out.op \in {"execute", "prepared", "auto_seal"} /\ SequenceOrLogMoved) =>
           /\ out.op = "execute" /\ out.persist
           /\ last_seq = out.pre.last_seq + 1

\* a prepared strategy went through the auto-seal retry, the reconciler synthesized
\* strategies for it, and it succeeded and changed the tree
C35_Witness ==
    /\ out.op = "prepared" /\ out.err = ""
    /\ Len(out.synth) > 0
    /\ TopCall.first = "auto-seal"
    /\ tree # out.pre.t
    /\ out.s.seq = out.pre.last_seq + 1

\* C36: execute() with persist = False applies its strategy to the tree and leaves
\* _last_seq and the log as they were, so that every strategy the reconciler synthesizes
\* carries the sequence number _last_seq + 1, the one of the strategy of the execute() in
\* flight, and a successful execute(), its auto-seal retry included, advances _last_seq by
\* exactly 1 and appends its own strategy only
C36_SynthesizedShareSequence ==
    /\ LiveHandler =>
          \A i \in 1..Len(out.synth) :
              /\ ~out.synth[i].persist
              /\ out.synth[i].s.seq = out.pre.last_seq + 1
    /\ out.op = "execute" =>
          \A i \in 1..Len(out.synth) : out.synth[i].s.seq = out.s.seq
    /\ (out.op = "auto_seal" /\ out.err = "" /\ Len(out.synth) > 0) =>
          /\ tree # out.pre.t
          /\ last_seq = out.pre.last_seq
          /\ log = out.pre.log
    /\ (out.op = "execute" /\ out.err = "") =>
          /\ last_seq = out.pre.last_seq + 1
          /\ log = Append(out.pre.log, out.s)

\* an execute() whose retry made the reconciler synthesize a strategy: both carry the same
\* sequence number, and _last_seq moved by 1
C36_Witness ==
    /\ out.op = "execute" /\ out.err = ""
    /\ Len(out.synth) > 0
    /\ out.synth[1].s.seq = out.s.seq
    /\ out.synth[1].s.cls # out.s.cls
    /\ tree # out.pre.t
    /\ last_seq = out.s.seq

\* the last handler ran a backlog strategy
BacklogStrategyRan ==
    /\ out.op \in {"execute", "prepared"}
    /\ out.s.cls \in {"CreateBacklog", "RenameBacklog", "DeleteBacklog"}

\* the user of that identity in a tree, NoUser when there is none
NoUser == NewUser("", "", 0)
UserOf(t, identity) ==
    IF IndexOf(t.users, identity) = 0 THEN NoUser ELSE t.users[IndexOf(t.users, identity)]
HeldBy(t, identity, uid) == IndexOf(UserOf(t, identity).backlogs, uid) # 0

\* C37: a backlog strategy executed with the identity of A leaves every other user as it
\* was (backlogs, their work items, names), and whether it succeeds depends on the backlogs
\* of A alone: a create succeeds exactly when A does not hold the uid, whoever else holds it,
\* a rename or a delete exactly when A holds it, and what changes is the backlog of A
C37_ActorIsolation ==
    BacklogStrategyRan =>
        /\ Len(tree.users) = Len(out.pre.t.users)
        /\ \A ui \in 1..Len(tree.users) :
              tree.users[ui].uid # out.s.user => tree.users[ui] = out.pre.t.users[ui]
        /\ IndexOf(out.pre.t.users, out.s.user) # 0 =>
              /\ out.err \in {"", "IOError"} <=>
                    IF out.s.cls = "CreateBacklog"
                    THEN ~HeldBy(out.pre.t, out.s.user, out.s.uid)
                    ELSE HeldBy(out.pre.t, out.s.user, out.s.uid)
              /\ out.err \in {"", "IOError"} =>
                    HeldBy(tree, out.s.user, out.s.uid) = (out.s.cls # "DeleteBacklog")
              /\ (out.err \in {"", "IOError"} /\ out.s.cls = "RenameBacklog") =>
                    UserOf(tree, out.s.user).backlogs[
                        IndexOf(UserOf(tree, out.s.user).backlogs, out.s.uid)].name = out.s.name

\* the second user of the tenant deleted a backlog whose uid the first user holds too, with
\* a work item of the same uid in each: the first user's backlog and work item are there
C37_Witness ==
    /\ BacklogStrategyRan /\ out.err = ""
    /\ out.s.cls = "DeleteBacklog" /\ out.s.user = OtherUser
    /\ Len(UserOf(out.pre.t, OtherUser).backlogs[1].items) = 1
    /\ ~HeldBy(tree, OtherUser, out.s.uid)
    /\ HeldBy(tree, Username, out.s.uid)
    /\ Len(UserOf(tree, Username).backlogs[1].items) = 1

\* C38: the BeforeMessageProcessed and AfterMessageProcessed events of a handler are
\* balanced and properly nested whether the handler returned or raised: no
\* AfterMessageProcessed comes without an open BeforeMessageProcessed, and every
\* BeforeMessageProcessed, that of a strategy whose execute raised included, is followed by
\* its AfterMessageProcessed
C38_BracketsBalancedOnFailure ==
    LiveHandler =>
        /\ \A i \in 1..(Len(out.ev) + 1) : Depth(i) >= 0
        /\ Depth(Len(out.ev) + 1) = 0

\* the subscriptions held for an event
SubscriptionsFor(event) == { i \in 1..Len(connections) : connections[i].event = event }

\* C39: after any sequence of changes of Integration.callbacks the emitters hold exactly
\* one subscription of the executor for every event of the latest configuration and none
\* for any other event
C39_SubscriptionsTrackConfiguration ==
    \A event \in IntegrationEvents :
        Cardinality(SubscriptionsFor(event)) =
            IF event \in Keys(json_loads(callbacks)) THEN 1 ELSE 0

\* the event-to-command map of a dict
AsMap(d) == [k \in Keys(d) |-> Get(d, k)]

\* C40: _subscribed equals the latest configuration after every sync, and when an event
\* of the latest configuration is emitted the executor runs a command, and none but the
\* command the latest configuration has for that event
C40_RunsConfiguredCommand ==
    /\ AsMap(subscribed) = AsMap(json_loads(callbacks))
    /\ fired.event \in Keys(fired.conf) =>
          /\ fired.ran # <<>>
          /\ \A i \in 1..Len(fired.ran) : fired.ran[i] = Get(fired.conf, fired.event)

====
